---- MODULE Spec2Model ----
(***************************************************************************)
(* State-machine model of the telemetry ingestion core:                    *)
(*   - MQTTWorker (workers/mqttWorker.js): broker session lifecycle,       *)
(*     message validation, decoding, persistence and realtime fan-out;     *)
(*   - Device / Telemetry mongoose models;                                 *)
(*   - POST /api/devices (routes/devices.js).                              *)
(*                                                                         *)
(* The mqtt client library is the environment of the worker.  A session    *)
(* created by mqtt.connect() is in one of the library states               *)
(*   connecting   : stream opened, CONNACK not yet received                *)
(*   connected    : CONNACK received                                       *)
(*   closed       : stream closed, reconnect timer armed                   *)
(*   reconnecting : 'reconnect' emitted, new stream being opened           *)
(*   ending       : end() called while a stream was open                   *)
(*   ended        : end() completed; the session emits nothing any more    *)
(* and the library emits the events the worker registers handlers for.     *)
(***************************************************************************)
EXTENDS Integers, Sequences, FiniteSets, TLC

VARIABLES
    mqttEnabled,        \* process.env.MQTT_ENABLED !== 'false'
    client,             \* this.client: 0 is null, otherwise an index into sessions
    io,                 \* this.io: "null" or "io"
    isConnected,        \* this.isConnected
    reconnectAttempts,  \* this.reconnectAttempts
    sessions,           \* the broker sessions mqtt.connect() has created
    raised,             \* an exception has escaped from a worker method
    hostPhase,          \* the host process: "boot", "running", "shutdown"
    attemptsSinceConnect, \* 'reconnect' events since the last 'connect' (or start)
    lastEvent,          \* the last operation or event that ran
    now,                \* the clock new Date() reads
    devices,            \* the Device collection
    telemetry,          \* the Telemetry collection
    emitted,            \* the events io.emit() has sent, oldest first
    handlers,           \* the message handler invocations, in arrival order
    posts,              \* the POST /api/devices requests, in arrival order
    failures,           \* the database operations that failed on a store outage
    listing,            \* GET /api/devices: the request in flight, its answer, the
                        \* devices state of DevicesPage and what the page shows
    probe,              \* the last decoder call: its argument and what it returned
    deviceUpdates,      \* SocketProvider: the deviceUpdates state
    telemetryUpdates,   \* SocketProvider: the telemetryUpdates state
    received,           \* the events the socket has received: how many devices have
                        \* sent a device:update, how many telemetry:new events
                        \* came, the last device:update event and the lastSeen
                        \* of the last event of device 1
    seed                \* scripts/seedDatabase.js: the await the script stands at

connVars == <<mqttEnabled, client, io, isConnected, reconnectAttempts, sessions,
              raised, hostPhase, attemptsSinceConnect, lastEvent>>

\* What read-only operations have answered.
clientVars == <<deviceUpdates, telemetryUpdates, received>>

viewVars == <<listing, probe, clientVars>>

dataVars == <<now, devices, telemetry, emitted, handlers, posts, failures, viewVars, seed>>

vars == <<connVars, dataVars>>

\* this.maxReconnectAttempts = 10
maxReconnectAttempts == 10

NULL == 0

\* Bounds of the model.
MaxMsgs == 2

MaxInFlight == 2

MaxPosts == 1

MaxClock == 1

MaxFailures == 1

\* Sessions a worker opens when the host starts it more than once.
MaxSessions == 2

\* Reconnect attempts counted before the model stops counting.
MaxAttempts == 12

\* Devices that send device:update events to one client.
MaxClientDevices == 52

\* telemetry:new events one client receives.
MaxClientEvents == 103

\* GET /api/devices requests of one page.
MaxGets == 1

\* The states of a session of the mqtt library between two events.  "ending":
\* end() was called while a stream was open, the final 'close' is to come;
\* "ended": no stream and no reconnect timer; "lastAttempt": end() was called
\* by a handler of the session's own 'reconnect' event, so the timer is
\* cleared while the attempt that event announced is under way; "lingering":
\* that attempt has succeeded, the stream is open on a session end() was
\* called on.
LibStates == {"connecting", "connected", "closed", "reconnecting", "ending", "ended",
              "lastAttempt", "lingering"}

\* The worker object as a record (the fields the methods read and write).
Worker == [client |-> client, io |-> io, isConnected |-> isConnected,
           reconnectAttempts |-> reconnectAttempts, sessions |-> sessions,
           raised |-> raised]

\* getStatus()
getStatus(w) == [connected |-> w.isConnected, reconnectAttempts |-> w.reconnectAttempts]

\* mqtt client.end() as seen by the library: an open stream is closed (a final
\* 'close' follows), an armed reconnect timer is cleared; end() on a session
\* it was called on before does nothing.  The library emits 'reconnect'
\* before it sets up the stream of the attempt ("announced"): end() called by
\* a handler of that event finds no stream to close, clears the timer, and the
\* attempt starts when the handlers have returned.
LibEnd(st) ==
    IF st \in {"connecting", "connected", "reconnecting"} THEN "ending"
    ELSE IF st = "closed" THEN "ended"
    ELSE IF st = "announced" THEN "lastAttempt"
    ELSE st

\* this.client.end(): a TypeError when this.client is null.
ClientEnd(w) ==
    IF w.client = NULL
    THEN [w EXCEPT !.raised = TRUE]
    ELSE [w EXCEPT !.sessions[w.client].st = LibEnd(@)]

\* connect(): this.client = mqtt.connect(...), handlers registered on it.
connect(w) ==
    [w EXCEPT !.sessions = Append(@, [st |-> "connecting", sub |-> "none", inbox |-> <<>>]),
              !.client = Len(w.sessions) + 1]

\* start() that connects whatever the configuration says.
startIgnoresFlag(w, socketIo, enabled) ==
    connect([w EXCEPT !.io = socketIo])

\* start(socketIo)
start(w, socketIo, enabled) ==
    LET w1 == [w EXCEPT !.io = socketIo]
    IN  IF ~enabled THEN w1 ELSE connect(w1)

\* stop() without the null guard and dropping the reference afterwards.
stopUnguarded(w) ==
    LET w1 == ClientEnd(w)
    IN  IF w1.raised THEN w1 ELSE [w1 EXCEPT !.client = NULL, !.isConnected = FALSE]

\* stop() that only clears the flag and leaves the session running.
stopFlagOnly(w) ==
    IF w.client # NULL THEN [w EXCEPT !.isConnected = FALSE] ELSE w

\* stop()
stop(w) ==
    IF w.client # NULL
    THEN [ClientEnd(w) EXCEPT !.isConnected = FALSE]
    ELSE w

\* this.client.subscribe(topic, callback): the request goes out on the session
\* this.client refers to, which is the one of the latest start().  The library
\* queues it while that session is not connected and refuses it (the callback
\* gets an error, which is logged) once end() was called on it.
subscribe(w) ==
    [w EXCEPT !.sessions[w.client].sub =
                  IF w.sessions[w.client].st \in {"ending", "ended", "lastAttempt", "lingering"}
                  THEN "failed" ELSE "pending"]

\* 'connect' handler that forgets to reset the counter.
onConnectNoReset(w, s) ==
    subscribe([w EXCEPT !.isConnected = TRUE,
                        !.sessions[s].st = IF @ = "lastAttempt" THEN "lingering" ELSE "connected"])

\* client.on('connect') of session s: flag set, counter reset, subscribe
\* issued on this.client.  The handler runs whether or not end() was called
\* on the session while the handshake was under way.
onConnect(w, s) ==
    subscribe([w EXCEPT !.isConnected = TRUE,
                        !.reconnectAttempts = 0,
                        !.sessions[s].st = IF @ = "lastAttempt" THEN "lingering" ELSE "connected"])

\* subscribe callback that gives the session up when the subscription fails.
onSubscribedTearsDown(w, s, err) ==
    IF err
    THEN [ClientEnd(w) EXCEPT !.isConnected = FALSE, !.sessions[s].sub = "failed"]
    ELSE [w EXCEPT !.sessions[s].sub = "ok"]

\* subscribe callback: the outcome is logged only.
onSubscribed(w, s, err) ==
    [w EXCEPT !.sessions[s].sub = IF err THEN "failed" ELSE "ok"]

\* 'error' handler that leaves the flag alone.
onErrorKeepsFlag(w, s) == w

\* client.on('error')
onError(w, s) == [w EXCEPT !.isConnected = FALSE]

\* client.on('close'); the library arms the reconnect timer unless end() was
\* called.  What the broker had sent to the session and was not handled yet
\* is lost with the stream.
onClose(w, s) ==
    [w EXCEPT !.isConnected = FALSE,
              !.sessions[s] = [st |-> IF w.sessions[s].st \in {"ending", "lastAttempt", "lingering"}
                                      THEN "ended" ELSE "closed",
                               sub |-> "none", inbox |-> <<>>]]

\* client.on('offline')
onOffline(w, s) == [w EXCEPT !.isConnected = FALSE]

\* 'reconnect' handler that compares with > instead of >=.
onReconnectLate(w, s) ==
    LET w1 == [w EXCEPT !.reconnectAttempts = @ + 1]
    IN  IF w1.reconnectAttempts > maxReconnectAttempts THEN ClientEnd(w1) ELSE w1

\* client.on('reconnect'): the library is about to start a new attempt on
\* session s; the handler counts it and ends this.client at the ceiling.
onReconnect(w, s) ==
    LET w1 == [w EXCEPT !.reconnectAttempts = @ + 1]
    IN  IF w1.reconnectAttempts >= maxReconnectAttempts THEN ClientEnd(w1) ELSE w1

\* The worker fields after a method or handler has run.
Becomes(w) ==
    /\ client' = w.client
    /\ io' = w.io
    /\ isConnected' = w.isConnected
    /\ reconnectAttempts' = w.reconnectAttempts
    /\ sessions' = w.sessions
    /\ raised' = w.raised

(***************************************************************************)
(* Natural numbers of any size: the sequence of the digits to the base     *)
(* 10000, the least significant first, without a zero at the top; <<>> is  *)
(* 0.  They carry the exact arithmetic behind the conversions of doubles.  *)
(***************************************************************************)
Abs(i) == IF i < 0 THEN -i ELSE i

Sign(i) == IF i < 0 THEN -1 ELSE 1

RECURSIVE Pow(_, _)
Pow(b, e) == IF e = 0 THEN 1 ELSE b * Pow(b, e - 1)

RECURSIVE BitLength(_)
BitLength(i) == IF i = 0 THEN 0 ELSE 1 + BitLength(i \div 2)

\* Exact is defined below the operators it carries; an operator of fewer
\* arguments than Exact has places passes 0 in the places it leaves.
RECURSIVE Exact(_, _, _, _, _)

\* The greatest index in lo..hi of a digit of a that is not 0 (lo - 1 when
\* there is none), by halving.
BigTop(a, lo, hi) == Exact("BigTop", a, lo, hi, 0)

BigNorm(a) == Exact("BigNorm", a, 0, 0, 0)

BigOf(i) == Exact("BigOf", i, 0, 0, 0)

\* The greatest index in lo..hi where a and b differ (lo - 1 when there is
\* none), by halving; a and b have the same length.
BigDiffers(a, b, lo, hi) == Exact("BigDiffers", a, b, lo, hi)

\* -1, 0 or 1 as a is below, equal to or above b.
BigCmp(a, b) == Exact("BigCmp", a, b, 0, 0)

BigOdd(a) == Exact("BigOdd", a, 0, 0, 0)

\* a + b.  The digit sums s carry into place i when the place below
\* overflows, or holds 9999 and is carried into itself.
BigAdd(a, b) == Exact("BigAdd", a, b, 0, 0)

\* a - b for a >= b, with the borrows found as the carries of BigAdd are.
BigSub(a, b) == Exact("BigSub", a, b, 0, 0)

\* a * k for 0 <= k <= 10000: the low digits of the products plus their
\* high digits one place up.
BigMulSmall(a, k) == Exact("BigMulSmall", a, k, 0, 0)

\* a * b, halving b.
BigMul(a, b) == Exact("BigMul", a, b, 0, 0)

BigDivAt(a, k, i, r) == Exact("BigDivAt", a, k, i, r)

\* Quotient q and remainder r of a by k, 0 < k < 100000, for an a of few
\* digits.
BigDivSmall(a, k) == Exact("BigDivSmall", a, k, 0, 0)

\* 2^k and 5^k, by squaring.
BigPow2(k) == Exact("BigPow2", k, 0, 0, 0)

BigPow5(k) == Exact("BigPow5", k, 0, 0, 0)

\* The powers of 2 up to 2^140, worked out once.
Pow2s == [k \in 1..140 |-> BigPow2(k)] @@ <<>>

\* a * 2^k
BigShl(a, k) == Exact("BigShl", a, k, 0, 0)

\* a \div 2^k, and whether a bit was dropped, for an a of few digits.
BigShr(a, k) == Exact("BigShr", a, k, 0, 0)

\* The number of bits of a > 0 or up to two less: a digit to the base 10000
\* is 13.2877 bits.
BigBits(a) == Exact("BigBits", a, 0, 0, 0)

\* The number of bits of a, for an a of few digits: counted from the powers
\* of 2 around BigBits(a) that a reaches, or by shifting.
BigBitLength(a) == Exact("BigBitLength", a, 0, 0, 0)

\* a * 10^k
BigTimesPow10(a, k) == Exact("BigTimesPow10", a, k, 0, 0)

\* The greatest d in lo..hi with b * d <= cur (b * lo <= cur is given).
QuotDigit(cur, b, lo, hi) == Exact("QuotDigit", cur, b, lo, hi)

BigDivModAt(a, b, i, r) == Exact("BigDivModAt", a, b, i, r)

\* Quotient q and remainder r of a by b > 0, for a quotient of few digits:
\* long division from the place where the quotient starts.  A b of one digit
\* above zeros (a power of 10 is one) divides the digits of a from that place
\* on and leaves those below in the remainder.
BigDivMod(a, b) == Exact("BigDivMod", a, b, 0, 0)

(***************************************************************************)
(* JavaScript numbers: IEEE-754 doubles.  A finite number is s * m * 2^e   *)
(* with the sign s (1 or -1), m odd and below 2^53, and e from -1074 up;   *)
(* 0 is written with m = <<>>.  The other kinds are NaN and +-Infinity.    *)
(* -0 is not told from 0 (they are === equal).                             *)
(***************************************************************************)
Zero == [k |-> "fin", s |-> 1, m |-> <<>>, e |-> 0]

NaN == [k |-> "nan", s |-> 1, m |-> <<>>, e |-> 0]

Infinity(sgn) == [k |-> "inf", s |-> sgn, m |-> <<>>, e |-> 0]

\* The number sgn * m * 2^e in its one written form.
Double(sgn, m, e) == Exact("Double", sgn, m, e, 0)

\* q / 2^p (p >= 1) rounded to the nearest integer, ties to the even one;
\* sticky: q itself was cut off.
RoundShift(q, p, sticky) == Exact("RoundShift", q, p, sticky, 0)

\* The double nearest to sgn * a / b (a, b > 0), ties to even: 53 bits of
\* the quotient, fewer below 2^-1022, Infinity from 2^1024 - 2^970 on.  The
\* quotient is taken with 56 bits or more, and whether it left a remainder.
\* An integer below 10^12 is a double as it is.
RoundToDouble(sgn, a, b) == Exact("RoundToDouble", sgn, a, b, 0)

\* The doubles nearest to n/100 for n = 1..10000, worked out once.
Hundredths == [n \in 1..10000 |-> RoundToDouble(1, BigOf(n), <<100>>)] @@ <<>>

\* The positive numbers of two decimals up to 100.
TwoDecimals == {Hundredths[n] : n \in 1..10000}

\* The double nearest to sgn * n / 100 for a natural number n > 0.
OverHundred(sgn, n) == Exact("OverHundred", sgn, n, 0, 0)

\* The number written n/d (d > 0): the double nearest to the fraction.
Fin(n, d) == Exact("Fin", n, d, 0, 0)

isNaN(x) == x.k = "nan"

isFinite(x) == x.k = "fin"

\* x || 0 on a number: NaN and 0 are falsy.
OrZero(x) == IF x.k = "nan" THEN Zero ELSE x

\* parseFloat(x.toFixed(2)): toFixed takes the integer n for which n/100 is
\* nearest to the exact value of the double, the one of greater magnitude of
\* two equally near, and writes it with two decimals; parseFloat reads the
\* double nearest to n/100.  An integer comes back as it is (from 10^21 on
\* toFixed writes the digits of String(x)), and so does the double nearest
\* to a number of two decimals.
ToFixed2(x) == Exact("ToFixed2", x, 0, 0, 0)

(***************************************************************************)
(* Strings are sequences of one-character strings, byte sequences are      *)
(* sequences of integers 0..255.  Four characters have a name here: the    *)
(* vertical tab, the backtick, any white space character outside ASCII,    *)
(* and any other character that is not printable ASCII.                    *)
(***************************************************************************)
DecDigits == <<"0", "1", "2", "3", "4", "5", "6", "7", "8", "9">>

HexLower == <<"a", "b", "c", "d", "e", "f">>

HexUpper == <<"A", "B", "C", "D", "E", "F">>

VT == "<VT>"

USpace == "<U+SP>"

Other == "<?>"

\* The character 96.
Backtick == "<BT>"

\* The characters 32..126.
Ascii ==
    <<" ", "!", "\"", "#", "$", "%", "&", "'", "(", ")", "*", "+", ",", "-", ".", "/",
      "0", "1", "2", "3", "4", "5", "6", "7", "8", "9", ":", ";", "<", "=", ">", "?",
      "@", "A", "B", "C", "D", "E", "F", "G", "H", "I", "J", "K", "L", "M", "N", "O",
      "P", "Q", "R", "S", "T", "U", "V", "W", "X", "Y", "Z", "[", "\\", "]", "^", "_",
      Backtick, "a", "b", "c", "d", "e", "f", "g", "h", "i", "j", "k", "l", "m", "n", "o",
      "p", "q", "r", "s", "t", "u", "v", "w", "x", "y", "z", "{", "|", "}", "~">>

\* StrWhiteSpaceChar: white space and line terminators.
IsWhiteSpace(c) == c \in {" ", "\t", "\n", "\r", "\f", VT, USpace}

IsDecDigit(c) == \E i \in 1..10 : DecDigits[i] = c

IsHexDigit(c) ==
    \/ IsDecDigit(c)
    \/ \E i \in 1..6 : HexLower[i] = c \/ HexUpper[i] = c

DigitVal(c) ==
    IF IsDecDigit(c) THEN (CHOOSE i \in 1..10 : DecDigits[i] = c) - 1
    ELSE (CHOOSE i \in 1..6 : HexLower[i] = c \/ HexUpper[i] = c) + 9

\* The longest run of characters of kind P (a predicate name is not passed:
\* hex selects hex digits, otherwise decimal digits) that starts at index i.
RECURSIVE Run(_, _, _)
Run(c, i, hex) ==
    IF i > Len(c) THEN <<>>
    ELSE IF (IF hex THEN IsHexDigit(c[i]) ELSE IsDecDigit(c[i]))
         THEN <<c[i]>> \o Run(c, i + 1, hex)
         ELSE <<>>

RECURSIVE DigitsValue(_, _)
DigitsValue(ds, base) ==
    IF ds = <<>> THEN 0
    ELSE DigitsValue(SubSeq(ds, 1, Len(ds) - 1), base) * base + DigitVal(ds[Len(ds)])

RECURSIVE StripZeros(_)
StripZeros(ds) ==
    IF ds # <<>> /\ ds[1] = "0" THEN StripZeros(Tail(ds)) ELSE ds

RECURSIVE StripTrailingZeros(_)
StripTrailingZeros(ds) ==
    IF ds # <<>> /\ ds[Len(ds)] = "0" THEN StripTrailingZeros(SubSeq(ds, 1, Len(ds) - 1)) ELSE ds

RECURSIVE SkipWhite(_, _)
SkipWhite(c, i) == IF i <= Len(c) /\ IsWhiteSpace(c[i]) THEN SkipWhite(c, i + 1) ELSE i

HasPrefix(c, i, p) == Len(c) >= i + Len(p) - 1 /\ SubSeq(c, i, i + Len(p) - 1) = p

\* The digit sequences compared as the fractions 0.a and 0.b: -1, 0 or 1.
RECURSIVE DigitsCompare(_, _)
DigitsCompare(a, b) ==
    IF a = <<>> /\ b = <<>> THEN 0
    ELSE LET x == IF a = <<>> THEN 0 ELSE DigitVal(a[1])
             y == IF b = <<>> THEN 0 ELSE DigitVal(b[1])
         IN  IF x < y THEN -1
             ELSE IF x > y THEN 1
             ELSE DigitsCompare(IF a = <<>> THEN a ELSE Tail(a), IF b = <<>> THEN b ELSE Tail(b))

\* The natural number the decimal digits ds write (no leading zero).
BigDigits(ds) == Exact("BigDigits", ds, 0, 0, 0)

\* The number written by the digits ds times 10^e, with the sign sgn: the
\* double nearest to it.  A text of more than 310 digits before the point
\* is beyond every double, one that starts more than 330 places behind the
\* point is below half of the smallest.
Decimal(sgn, ds, e) == Exact("Decimal", sgn, ds, e, 0)

\* A digit sequence as a number of at most nine digits (an exponent).
ExponentValue(ds) ==
    IF Len(StripZeros(ds)) > 9 THEN 999999999 ELSE DigitsValue(StripZeros(ds), 10)

\* The exponent digits that start at index estart, and the literal read:
\* the digits ip before and fp behind the point, which end before index
\* mend, times ten to the exponent.
scanExponentDigits(c, first, sgn, ip, fp, mend, eneg, estart, ep) ==
    LET expo == IF eneg THEN 0 - ExponentValue(ep) ELSE ExponentValue(ep)
    IN  IF ip = <<>> /\ fp = <<>> THEN [v |-> NaN, end |-> first]
        ELSE [v |-> Decimal(sgn, ip \o fp, expo - Len(fp)),
              end |-> IF ep = <<>> THEN mend ELSE estart + Len(ep)]

\* The optional exponent part behind a mantissa that ends before index mend.
scanExponent(c, first, sgn, ip, fp, mend) ==
    LET hasE   == mend <= Len(c) /\ c[mend] \in {"e", "E"}
        esign  == hasE /\ mend + 1 <= Len(c) /\ c[mend + 1] \in {"-", "+"}
        estart == mend + 1 + (IF esign THEN 1 ELSE 0)
    IN  scanExponentDigits(c, first, sgn, ip, fp, mend, esign /\ c[mend + 1] = "-",
                           estart, IF hasE THEN Run(c, estart, FALSE) ELSE <<>>)

\* The optional fraction behind the digits ip, the first of which is at
\* index p.
scanFraction(c, first, sgn, p, ip) ==
    LET dot    == p + Len(ip)
        hasDot == dot <= Len(c) /\ c[dot] = "."
    IN  IF hasDot
        THEN scanExponent(c, first, sgn, ip, Run(c, dot + 1, FALSE),
                          dot + 1 + Len(Run(c, dot + 1, FALSE)))
        ELSE scanExponent(c, first, sgn, ip, <<>>, dot)

\* StrDecimalLiteral read from index first: the number v and the index end
\* behind the last character read (v is NaN and end is first when there is
\* none).  Optional sign, then Infinity, or digits with an optional fraction
\* and an optional exponent.
scanDecimal(c, first) == Exact("scanDecimal", c, first, 0, 0)

\* value.startsWith('0x')
startsWith0x(c) == Len(c) >= 2 /\ c[1] = "0" /\ c[2] = "x"

\* /^[0-9a-fA-F]+$/.test(value)
isHexPattern(c) == Len(c) >= 1 /\ \A i \in 1..Len(c) : IsHexDigit(c[i])

\* parseFloat of a string: leading white space is skipped, the longest
\* decimal literal that follows is read; NaN when there is none.
parseFloatChars(c) == Exact("parseFloatChars", c, 0, 0, 0)

\* The white space characters outside ASCII in UTF-8: U+00A0, U+1680,
\* U+2000..U+200A, U+2028, U+2029, U+202F, U+205F, U+3000, U+FEFF.
UnicodeSpaceStarts(bytes) ==
    LET b(i) == IF i <= Len(bytes) THEN bytes[i] ELSE 0
    IN  IF b(1) = 194 /\ b(2) = 160 THEN 2
        ELSE IF b(1) = 225 /\ b(2) = 154 /\ b(3) = 128 THEN 3
        ELSE IF b(1) = 226 /\ b(2) = 128 /\ b(3) \in (128..138) \cup {168, 169, 175} THEN 3
        ELSE IF b(1) = 226 /\ b(2) = 129 /\ b(3) = 159 THEN 3
        ELSE IF b(1) = 227 /\ b(2) = 128 /\ b(3) = 128 THEN 3
        ELSE IF b(1) = 239 /\ b(2) = 187 /\ b(3) = 191 THEN 3
        ELSE 0

\* buffer.toString(): the text of a buffer, read as UTF-8.  A well-formed
\* sequence of two or three bytes is one character and one of four bytes is
\* two (a surrogate pair); a byte that starts no sequence, and the bytes of a
\* sequence up to the place where it is cut short or goes wrong, are one
\* U+FFFD.  Every character outside ASCII that is no white space is Other.
RECURSIVE BufferChars(_)
BufferChars(bytes) ==
    IF bytes = <<>> THEN <<>>
    ELSE LET b     == bytes[1]
             u     == UnicodeSpaceStarts(bytes)
             need  == IF b \in 194..223 THEN 1
                      ELSE IF b \in 224..239 THEN 2
                      ELSE IF b \in 240..244 THEN 3
                      ELSE 0
             low   == IF b = 224 THEN 160 ELSE IF b = 240 THEN 144 ELSE 128
             high  == IF b = 237 THEN 159 ELSE IF b = 244 THEN 143 ELSE 191
             ok2   == need >= 1 /\ Len(bytes) >= 2 /\ bytes[2] \in low..high
             ok3   == ok2 /\ need >= 2 /\ Len(bytes) >= 3 /\ bytes[3] \in 128..191
             ok4   == ok3 /\ need >= 3 /\ Len(bytes) >= 4 /\ bytes[4] \in 128..191
             taken == IF ok4 THEN 3 ELSE IF ok3 THEN 2 ELSE IF ok2 THEN 1 ELSE 0
         IN  IF u > 0 THEN <<USpace>> \o BufferChars(SubSeq(bytes, u + 1, Len(bytes)))
             ELSE IF b >= 128
             THEN (IF need = 3 /\ taken = 3 THEN <<Other, Other>> ELSE <<Other>>)
                    \o BufferChars(SubSeq(bytes, taken + 2, Len(bytes)))
             ELSE <<IF b \in 32..126 THEN Ascii[b - 31]
                    ELSE IF b = 9 THEN "\t"
                    ELSE IF b = 10 THEN "\n"
                    ELSE IF b = 11 THEN VT
                    ELSE IF b = 12 THEN "\f"
                    ELSE IF b = 13 THEN "\r"
                    ELSE Other>> \o BufferChars(Tail(bytes))

(***************************************************************************)
(* A sensor field value of any type: t is the JavaScript type ("number",   *)
(* "string", "buffer", "array", "null", "boolean", "object", "undefined"), *)
(* n the number (1 for true, 0 for false), c the characters of a string or *)
(* the bytes of a buffer or an array.                                      *)
(***************************************************************************)
JNumber(x) == [t |-> "number", n |-> x, c |-> <<>>]

JString(c) == [t |-> "string", n |-> Zero, c |-> c]

JBuffer(bytes) == [t |-> "buffer", n |-> Zero, c |-> bytes]

JArray(bytes) == [t |-> "array", n |-> Zero, c |-> bytes]

JNull == [t |-> "null", n |-> Zero, c |-> <<>>]

JTrue == [t |-> "boolean", n |-> Fin(1, 1), c |-> <<>>]

JFalse == [t |-> "boolean", n |-> Zero, c |-> <<>>]

JObject == [t |-> "object", n |-> Zero, c |-> <<>>]

Undefined == [t |-> "undefined", n |-> Zero, c |-> <<>>]

\* parseFloat(value): the value is converted to a string first.
parseFloat(v) == Exact("parseFloat", v, 0, 0, 0)

\* buffer.readFloatLE(0) on the four bytes b: IEEE-754 binary32, every value
\* of which is a double.  The value is m * 2^(ex - 150), without the hidden
\* bit of m and with ex = 1 when the exponent field is 0.
readFloatLE(b) == Exact("readFloatLE", b, 0, 0, 0)

\* buffer.writeUInt32LE(intValue, 0) of the integer the hex digits ds write:
\* the lowest byte first, a byte from two of the eight digits.
writeUInt32LE(ds) ==
    IF Len(ds) > 8 THEN [thrown |-> TRUE, bytes |-> <<0, 0, 0, 0>>]
    ELSE [thrown |-> FALSE,
          bytes  |-> LET d(i) == IF i <= 8 - Len(ds) THEN 0 ELSE DigitVal(ds[i - (8 - Len(ds))])
                         byte(i) == d(i) * 16 + d(i + 1)
                     IN  <<byte(7), byte(5), byte(3), byte(1)>>]

\* parseInt(hexValue, 16) followed by buffer.writeUInt32LE(intValue, 0): the
\* hex digits after the 0x prefix, up to the first other character.  NaN is
\* written as 0; a value above 0xFFFFFFFF makes writeUInt32LE throw.
hexToBytes(c) == writeUInt32LE(StripZeros(Run(c, IF startsWith0x(c) THEN 3 ELSE 1, TRUE)))

\* A decoder that tries the decimal parse of a string before the hex pattern.
littleEndianToFloatDecimalFirst(v) ==
    LET ret(x) == [thrown |-> FALSE, v |-> x]
    IN  IF v.t = "number" THEN ret(v.n)
        ELSE IF v.t = "string" /\ ~isNaN(parseFloatChars(v.c)) /\ ~startsWith0x(v.c)
        THEN ret(parseFloatChars(v.c))
        ELSE IF v.t = "string" /\ (startsWith0x(v.c) \/ isHexPattern(v.c))
        THEN LET w == hexToBytes(v.c)
             IN  IF w.thrown THEN [thrown |-> TRUE, v |-> Zero]
                 ELSE ret(readFloatLE(w.bytes))
        ELSE IF v.t = "buffer" /\ Len(v.c) = 4 THEN ret(readFloatLE(v.c))
        ELSE IF v.t = "array" /\ Len(v.c) = 4 THEN ret(readFloatLE(v.c))
        ELSE ret(Zero)

\* A decoder that reads the bytes of an array in the opposite order.
littleEndianToFloatArrayReversed(v) ==
    LET ret(x) == [thrown |-> FALSE, v |-> x]
    IN  IF v.t = "number" THEN ret(v.n)
        ELSE IF v.t = "string" /\ (startsWith0x(v.c) \/ isHexPattern(v.c))
        THEN LET w == hexToBytes(v.c)
             IN  IF w.thrown THEN [thrown |-> TRUE, v |-> Zero]
                 ELSE ret(readFloatLE(w.bytes))
        ELSE IF v.t = "string" /\ ~isNaN(parseFloatChars(v.c)) THEN ret(parseFloatChars(v.c))
        ELSE IF v.t = "buffer" /\ Len(v.c) = 4 THEN ret(readFloatLE(v.c))
        ELSE IF v.t = "array" /\ Len(v.c) = 4
        THEN ret(readFloatLE(<<v.c[4], v.c[3], v.c[2], v.c[1]>>))
        ELSE ret(Zero)

\* littleEndianToFloat(value): [thrown, v].
littleEndianToFloat(v) ==
    LET ret(x) == [thrown |-> FALSE, v |-> x]
    IN  IF v.t = "number" THEN ret(v.n)
        ELSE IF v.t = "string" /\ (startsWith0x(v.c) \/ isHexPattern(v.c))
        THEN LET w == hexToBytes(v.c)
             IN  IF w.thrown THEN [thrown |-> TRUE, v |-> Zero]
                 ELSE ret(readFloatLE(w.bytes))
        ELSE IF v.t = "string" /\ ~isNaN(parseFloatChars(v.c)) THEN ret(parseFloatChars(v.c))
        ELSE IF v.t = "buffer" /\ Len(v.c) = 4 THEN ret(readFloatLE(v.c))
        ELSE IF v.t = "array" /\ Len(v.c) = 4 THEN ret(readFloatLE(v.c))
        ELSE ret(Zero)

\* The decode step without its catch: the exception of a field leaves it.
decodedNoCatch(temperature, humidity, pm25) ==
    IF temperature.thrown \/ humidity.thrown \/ pm25.thrown
    THEN [thrown |-> TRUE]
    ELSE [temperature |-> ToFixed2(temperature.v),
          humidity    |-> ToFixed2(humidity.v),
          pm25        |-> ToFixed2(pm25.v)]

\* decodeLittleEndianData without the catch.
decodeLittleEndianDataNoCatch(data) ==
    decodedNoCatch(littleEndianToFloat(data.temp), littleEndianToFloat(data.hum),
                   littleEndianToFloat(data.pm25))

\* The rest of decodeLittleEndianData once the three fields are read: the
\* object of the try block, or the object of the catch when a read threw.
decoded(data, temperature, humidity, pm25) ==
    IF temperature.thrown \/ humidity.thrown \/ pm25.thrown
    THEN [temperature |-> OrZero(parseFloat(data.temp)),
          humidity    |-> OrZero(parseFloat(data.hum)),
          pm25        |-> OrZero(parseFloat(data.pm25))]
    ELSE [temperature |-> ToFixed2(temperature.v),
          humidity    |-> ToFixed2(humidity.v),
          pm25        |-> ToFixed2(pm25.v)]

\* decodeLittleEndianData(data)
decodeLittleEndianData(data) ==
    decoded(data, littleEndianToFloat(data.temp), littleEndianToFloat(data.hum),
            littleEndianToFloat(data.pm25))

(***************************************************************************)
(* Messages.  A topic is a sequence of pieces: the separator "/" or a text *)
(* without separator.  A body is either malformed text or the text of a    *)
(* JSON value; the payload and its data member carry, next to their own    *)
(* type, the members the handler reads (Undefined when absent).            *)
(***************************************************************************)
RECURSIVE split(_)
\* topic.split('/')
split(topic) ==
    IF topic = <<>> THEN <<"">>
    ELSE LET rest == split(Tail(topic))
         IN  IF Head(topic) = "/" THEN <<"">> \o rest
             ELSE <<Head(topic) \o rest[1]>> \o Tail(rest)

RECURSIVE Join(_)
Join(c) == IF c = <<>> THEN "" ELSE c[1] \o Join(Tail(c))

\* The topic test of handleMessage that also accepts a shorter or longer topic.
topicAcceptedAnyLength(topicParts) ==
    /\ Len(topicParts) >= 3
    /\ topicParts[2] = "application"
    /\ topicParts[3] = "out"

\* handleMessage: the topic test (the negation of the early return).
topicAccepted(topicParts) ==
    ~(Len(topicParts) # 4 \/ topicParts[2] # "application" \/ topicParts[3] # "out")

\* Truthiness of a JSON value.
Truthy(v) ==
    CASE v.t \in {"null", "undefined"} -> FALSE
      [] v.t \in {"number", "boolean"} -> ~isNaN(v.n) /\ v.n # Zero
      [] v.t = "string" -> v.c # <<>>
      [] OTHER -> TRUE

\* typeof v
typeof(v) ==
    IF v.t \in {"object", "array", "null", "buffer"} THEN "object" ELSE v.t

\* JSON.parse(message.toString()): [thrown, payload].
JSONparse(body) == [thrown |-> ~body.wf, payload |-> body.json]

\* validatePayload that only looks at the data member.
validatePayloadDataOnly(payload) ==
    /\ Truthy(payload)
    /\ typeof(payload) = "object"
    /\ Truthy(payload.data)
    /\ typeof(payload.data) = "object"

\* validatePayload(payload)
validatePayload(payload) ==
    /\ Truthy(payload)
    /\ typeof(payload) = "object"
    /\ Truthy(payload.data)
    /\ typeof(payload.data) = "object"
    /\ typeof(payload.data.temp) # "undefined"
    /\ typeof(payload.data.hum) # "undefined"
    /\ typeof(payload.data.pm25) # "undefined"

RECURSIVE IntChars(_)
IntChars(i) ==
    IF i < 10 THEN <<DecDigits[i + 1]>> ELSE IntChars(i \div 10) \o <<DecDigits[(i % 10) + 1]>>

\* The decimal digits of the natural number a (none for 0).
BigChars(a) == Exact("BigChars", a, 0, 0, 0)

\* The digits ds and the exponent n with |x| = 0.ds * 10^n exactly, for a
\* finite x that is not 0.
ExactDigits(x) == Exact("ExactDigits", x, 0, 0, 0)

\* The digits plus one in the last place.
DigitsSucc(ds) == Exact("DigitsSucc", ds, 0, 0, 0)

\* Number::toString, the digits: the fewest digits (k of them, or more) that
\* still read back as x, the nearest to x of two candidates, the even one of
\* two equally near.  exact are the digits of x itself, x is positive.
ShortestFrom(x, exact, k) == Exact("ShortestFrom", x, exact, k, 0)

\* String(x) of a number (Number::toString): the shortest digits that read
\* back as x, written without exponent when the point lies within 21 digits
\* before and 6 zeros behind the first digit.
NumberChars(x) == Exact("NumberChars", x, 0, 0, 0)

RECURSIVE SkipWhiteBack(_, _)
SkipWhiteBack(c, j) == IF j >= 1 /\ IsWhiteSpace(c[j]) THEN SkipWhiteBack(c, j - 1) ELSE j

\* The natural number the digits ds write in the given radix.
BigRadix(ds, radix) == Exact("BigRadix", ds, radix, 0, 0)

\* The digits ds in the given radix as a number.
RadixValue(ds, radix) == Exact("RadixValue", ds, radix, 0, 0)

\* The number a text t without white space at its ends writes.
StringNumericLiteral(t) ==
    LET radix == IF Len(t) >= 2 /\ t[1] = "0"
                 THEN (IF t[2] \in {"x", "X"} THEN 16
                       ELSE IF t[2] \in {"o", "O"} THEN 8
                       ELSE IF t[2] \in {"b", "B"} THEN 2 ELSE 10)
                 ELSE 10
        ds    == SubSeq(t, 3, Len(t))
        s     == scanDecimal(t, 1)
    IN  IF t = <<>> THEN Zero
        ELSE IF radix # 10
        THEN (IF ds # <<>> /\ \A i \in 1..Len(ds) : IsHexDigit(ds[i]) /\ DigitVal(ds[i]) < radix
              THEN RadixValue(StripZeros(ds), radix) ELSE NaN)
        ELSE IF s.end = Len(t) + 1 THEN s.v ELSE NaN

\* Number(text): white space at both ends is dropped; the empty text is 0;
\* what is left has to be one numeric literal, decimal or with a radix
\* prefix, or the result is NaN.
StringToNumber(c) == Exact("StringToNumber", c, 0, 0, 0)

\* The cast of a String path of a schema: [ok, s].
castString(v) == Exact("castString", v, 0, 0, 0)

\* The cast of a Number path of a schema: [ok, n].
castNumber(v) == Exact("castNumber", v, 0, 0, 0)

\* The operators above, each the branch of its name: the branches of one
\* recursive operator, which the model checker accounts for once in every
\* expression that applies any of them.
Exact(op, arg1, arg2, arg3, arg4) ==
    CASE op = "BigNorm" ->
            LET a == arg1
            IN  (
                 IF a = <<>> \/ a[Len(a)] # 0 THEN a ELSE SubSeq(a, 1, BigTop(a, 1, Len(a) - 1))
                )
      [] op = "BigAdd" ->
            LET a == arg1
                b == arg2
            IN  (
                 LET n     == IF Len(a) > Len(b) THEN Len(a) ELSE Len(b)
                     s     == [i \in 1..(n + 1) |-> (IF i <= Len(a) THEN a[i] ELSE 0)
                                                      + (IF i <= Len(b) THEN b[i] ELSE 0)]
                     c(i)  == /\ i > 1
                              /\ \/ s[i - 1] >= 10000
                                 \/ /\ s[i - 1] = 9999
                                    /\ \E j \in 1..(i - 2) :
                                           s[j] >= 10000 /\ \A l \in (j + 1)..(i - 2) : s[l] = 9999
                 IN  BigNorm([i \in 1..(n + 1) |-> (s[i] + (IF c(i) THEN 1 ELSE 0)) % 10000])
                )
      [] op = "BigMulSmall" ->
            LET a == arg1
                k == arg2
            IN  (
                 IF k = 0 \/ a = <<>> THEN <<>>
                 ELSE BigAdd([i \in 1..Len(a) |-> (a[i] * k) % 10000],
                             BigNorm(<<0>> \o [i \in 1..Len(a) |-> (a[i] * k) \div 10000]))
                )
      [] op = "BigCmp" ->
            LET a == arg1
                b == arg2
            IN  (
                 IF Len(a) < Len(b) THEN -1
                 ELSE IF Len(a) > Len(b) THEN 1
                 ELSE IF a = b THEN 0
                 ELSE LET i == BigDiffers(a, b, 1, Len(a)) IN IF a[i] < b[i] THEN -1 ELSE 1
                )
      [] op = "BigDivAt" ->
            LET a == arg1
                k == arg2
                i == arg3
                r == arg4
            IN  (
                 IF i = 0 THEN [q |-> <<>>, r |-> r]
                 ELSE LET cur  == r * 10000 + a[i]
                          rest == BigDivAt(a, k, i - 1, cur % k)
                      IN  [q |-> Append(rest.q, cur \div k), r |-> rest.r]
                )
      [] op = "BigDivSmall" ->
            LET a == arg1
                k == arg2
            IN  (
                 LET h == BigDivAt(a, k, Len(a), 0)
                 IN  [q |-> BigNorm(h.q), r |-> h.r]
                )
      [] op = "BigTop" ->
            LET a == arg1
                lo == arg2
                hi == arg3
            IN  (
                 IF lo > hi THEN lo - 1
                 ELSE LET mid == (lo + hi + 1) \div 2
                      IN  IF \E i \in mid..hi : a[i] # 0
                          THEN (IF mid = hi THEN hi ELSE BigTop(a, mid, hi))
                          ELSE BigTop(a, lo, mid - 1)
                )
      [] op = "BigOf" ->
            LET i == arg1
            IN  (
                 IF i = 0 THEN <<>> ELSE <<i % 10000>> \o BigOf(i \div 10000)
                )
      [] op = "BigDiffers" ->
            LET a == arg1
                b == arg2
                lo == arg3
                hi == arg4
            IN  (
                 IF lo > hi THEN lo - 1
                 ELSE LET mid == (lo + hi + 1) \div 2
                      IN  IF SubSeq(a, mid, hi) # SubSeq(b, mid, hi)
                          THEN (IF mid = hi THEN hi ELSE BigDiffers(a, b, mid, hi))
                          ELSE BigDiffers(a, b, lo, mid - 1)
                )
      [] op = "BigOdd" ->
            LET a == arg1
            IN  (
                 a # <<>> /\ a[1] % 2 = 1
                )
      [] op = "BigSub" ->
            LET a == arg1
                b == arg2
            IN  (
                 LET d     == [i \in 1..Len(a) |-> a[i] - (IF i <= Len(b) THEN b[i] ELSE 0)]
                     c(i)  == /\ i > 1
                              /\ \/ d[i - 1] < 0
                                 \/ /\ d[i - 1] = 0
                                    /\ \E j \in 1..(i - 2) :
                                           d[j] < 0 /\ \A l \in (j + 1)..(i - 2) : d[l] = 0
                 IN  BigNorm([i \in 1..Len(a) |-> (d[i] - (IF c(i) THEN 1 ELSE 0) + 10000) % 10000])
                )
      [] op = "BigMul" ->
            LET a == arg1
                b == arg2
            IN  (
                 IF a = <<>> \/ b = <<>> THEN <<>>
                 ELSE IF Len(b) = 1 THEN BigMulSmall(a, b[1])
                 ELSE LET h  == Len(b) \div 2
                          hi == BigMul(a, SubSeq(b, h + 1, Len(b)))
                      IN  BigAdd(BigMul(a, BigNorm(SubSeq(b, 1, h))), [i \in 1..h |-> 0] \o hi)
                )
      [] op = "BigPow2" ->
            LET k == arg1
            IN  (
                 IF k <= 13 THEN <<Pow(2, k)>>
                 ELSE LET h == BigPow2(k \div 2) IN BigMulSmall(BigMul(h, h), 1 + (k % 2))
                )
      [] op = "BigPow5" ->
            LET k == arg1
            IN  (
                 IF k <= 5 THEN <<Pow(5, k)>>
                 ELSE LET h == BigPow5(k \div 2) IN BigMulSmall(BigMul(h, h), 1 + 4 * (k % 2))
                )
      [] op = "BigShl" ->
            LET a == arg1
                k == arg2
            IN  (
                 IF k = 0 \/ a = <<>> THEN a
                 ELSE IF k <= 13 THEN BigMulSmall(a, Pow(2, k))
                 ELSE IF k <= 140 /\ Len(a) = 1 THEN BigMulSmall(Pow2s[k], a[1])
                 ELSE IF k <= 130 THEN BigShl(BigMulSmall(a, 8192), k - 13)
                 ELSE BigMul(a, BigPow2(k))
                )
      [] op = "BigShr" ->
            LET a == arg1
                k == arg2
            IN  (
                 IF k = 0 \/ a = <<>> THEN [q |-> a, sticky |-> FALSE]
                 ELSE LET step == IF k >= 13 THEN 13 ELSE k
                          h    == BigDivSmall(a, Pow(2, step))
                          rest == BigShr(h.q, k - step)
                      IN  [q |-> rest.q, sticky |-> h.r # 0 \/ rest.sticky]
                )
      [] op = "BigBits" ->
            LET a == arg1
            IN  (
                 BitLength(a[Len(a)]) + ((Len(a) - 1) * 132877) \div 10000
                )
      [] op = "BigBitLength" ->
            LET a == arg1
            IN  (
                 IF a = <<>> THEN 0
                 ELSE IF Len(a) = 1 THEN BitLength(a[1])
                 ELSE IF BigBits(a) + 3 <= 140
                 THEN (BigBits(a) - 2)
                         + Cardinality({j \in (BigBits(a) - 2)..(BigBits(a) + 3) : BigCmp(a, Pow2s[j]) >= 0})
                 ELSE 13 + BigBitLength(BigDivSmall(a, 8192).q)
                )
      [] op = "BigTimesPow10" ->
            LET a == arg1
                k == arg2
            IN  (
                 IF a = <<>> THEN a ELSE [i \in 1..(k \div 4) |-> 0] \o BigMulSmall(a, Pow(10, k % 4))
                )
      [] op = "QuotDigit" ->
            LET cur == arg1
                b == arg2
                lo == arg3
                hi == arg4
            IN  (
                 IF lo = hi THEN lo
                 ELSE LET mid == (lo + hi + 1) \div 2
                      IN  IF BigCmp(BigMulSmall(b, mid), cur) <= 0 THEN QuotDigit(cur, b, mid, hi)
                          ELSE QuotDigit(cur, b, lo, mid - 1)
                )
      [] op = "BigDivModAt" ->
            LET a == arg1
                b == arg2
                i == arg3
                r == arg4
            IN  (
                 IF i = 0 THEN [q |-> <<>>, r |-> r]
                 ELSE LET cur  == BigNorm(<<a[i]>> \o r)
                          d    == IF BigCmp(cur, b) < 0 THEN 0 ELSE QuotDigit(cur, b, 1, 9999)
                          rest == BigDivModAt(a, b, i - 1,
                                              IF d = 0 THEN cur ELSE BigSub(cur, BigMulSmall(b, d)))
                      IN  [q |-> Append(rest.q, d), r |-> rest.r]
                )
      [] op = "BigDivMod" ->
            LET a == arg1
                b == arg2
            IN  (
                 IF Len(a) < Len(b) THEN [q |-> <<>>, r |-> a]
                 ELSE IF \A i \in 1..(Len(b) - 1) : b[i] = 0
                 THEN LET h == BigDivSmall(SubSeq(a, Len(b), Len(a)), b[Len(b)])
                      IN  [q |-> h.q, r |-> BigNorm(SubSeq(a, 1, Len(b) - 1) \o BigOf(h.r))]
                 ELSE LET i == Len(a) - Len(b) + 1
                          h == BigDivModAt(a, b, i, BigNorm(SubSeq(a, i + 1, Len(a))))
                      IN  [q |-> BigNorm(h.q), r |-> h.r]
                )
      [] op = "Double" ->
            LET sgn == arg1
                m == arg2
                e == arg3
            IN  (
                 IF m = <<>> THEN Zero
                 ELSE IF m[1] % 2 = 1 THEN [k |-> "fin", s |-> sgn, m |-> m, e |-> e]
                 ELSE LET h == BigDivSmall(m, 8192)
                      IN  IF h.r = 0 THEN Double(sgn, h.q, e + 13)
                          ELSE Double(sgn, BigDivSmall(m, 2).q, e + 1)
                )
      [] op = "RoundShift" ->
            LET q == arg1
                p == arg2
                sticky == arg3
            IN  (
                 LET h    == BigShr(q, p - 1)
                     half == BigDivSmall(h.q, 2)
                 IN  IF half.r = 1 /\ (h.sticky \/ sticky \/ BigOdd(half.q))
                     THEN BigAdd(half.q, <<1>>) ELSE half.q
                )
      [] op = "RoundToDouble" ->
            LET sgn == arg1
                a == arg2
                b == arg3
            IN  (
                 IF b = <<1>> /\ Len(a) <= 3 THEN Double(sgn, a, 0)
                 ELSE LET t   == 60 - (BigBits(a) - BigBits(b))
                          d   == BigDivMod(IF t >= 0 THEN BigShl(a, t) ELSE a,
                                           IF t >= 0 THEN b ELSE BigShl(b, -t))
                          p0  == BigBitLength(d.q) - 53
                          p   == IF p0 - t < -1074 THEN t - 1074 ELSE p0
                          m   == RoundShift(d.q, p, d.r # <<>>)
                      IN  IF p - t > 960 /\ BigBitLength(m) + (p - t) > 1024 THEN Infinity(sgn)
                          ELSE Double(sgn, m, p - t)
                )
      [] op = "OverHundred" ->
            LET sgn == arg1
                n == arg2
            IN  (
                 IF Len(n) = 1 THEN [Hundredths[n[1]] EXCEPT !.s = sgn]
                 ELSE IF n = <<0, 1>> THEN [Hundredths[10000] EXCEPT !.s = sgn]
                 ELSE RoundToDouble(sgn, n, <<100>>)
                )
      [] op = "Fin" ->
            LET n == arg1
                d == arg2
            IN  (
                 IF n = 0 THEN Zero
                 ELSE IF d = 100 THEN OverHundred(Sign(n), BigOf(Abs(n)))
                 ELSE RoundToDouble(Sign(n), BigOf(Abs(n)), BigOf(d))
                )
      [] op = "ToFixed2" ->
            LET x == arg1
            IN  (
                 IF x.k # "fin" \/ x.e >= 0 \/ [x EXCEPT !.s = 1] \in TwoDecimals THEN x
                 ELSE LET h == BigShr(BigMulSmall(x.m, 100), (-x.e) - 1)
                          n == BigDivSmall(BigAdd(h.q, <<1>>), 2).q
                      IN  IF n = <<>> THEN Zero ELSE OverHundred(x.s, n)
                )
      [] op = "BigDigits" ->
            LET ds == arg1
            IN  (
                 LET n == Len(ds)
                 IN  [i \in 1..((n + 3) \div 4) |->
                         DigitsValue(SubSeq(ds, IF n - 4 * i + 1 < 1 THEN 1 ELSE n - 4 * i + 1, n - 4 * (i - 1)), 10)]
                )
      [] op = "Decimal" ->
            LET sgn == arg1
                ds == arg2
                e == arg3
            IN  (
                 LET sig == StripTrailingZeros(StripZeros(ds))
                     e1  == e + (Len(StripZeros(ds)) - Len(sig))
                     top == Len(sig) + e1
                 IN  IF sig = <<>> THEN Zero
                     ELSE IF top > 310 THEN Infinity(sgn)
                     ELSE IF top < -330 THEN Zero
                     ELSE IF e1 >= 0 THEN RoundToDouble(sgn, BigTimesPow10(BigDigits(sig), e1), <<1>>)
                     ELSE RoundToDouble(sgn, BigDigits(sig), BigTimesPow10(<<1>>, -e1))
                )
      [] op = "BigChars" ->
            LET a == arg1
            IN  (
                 StripZeros([i \in 1..(4 * Len(a)) |->
                     DecDigits[((a[Len(a) - ((i - 1) \div 4)] \div Pow(10, 3 - ((i - 1) % 4))) % 10) + 1]])
                )
      [] op = "ExactDigits" ->
            LET x == arg1
            IN  (
                 LET ds == BigChars(IF x.e >= 0 THEN BigShl(x.m, x.e) ELSE BigMul(x.m, BigPow5(-x.e)))
                 IN  [ds |-> ds, n |-> IF x.e >= 0 THEN Len(ds) ELSE Len(ds) + x.e]
                )
      [] op = "DigitsSucc" ->
            LET ds == arg1
            IN  (
                 IF ds = <<>> THEN <<"1">>
                 ELSE IF ds[Len(ds)] = "9" THEN DigitsSucc(SubSeq(ds, 1, Len(ds) - 1)) \o <<"0">>
                 ELSE SubSeq(ds, 1, Len(ds) - 1) \o <<DecDigits[DigitVal(ds[Len(ds)]) + 2]>>
                )
      [] op = "ShortestFrom" ->
            LET x == arg1
                exact == arg2
                k == arg3
            IN  (
                 IF k >= Len(exact.ds) THEN exact
                 ELSE LET lo   == SubSeq(exact.ds, 1, k)
                          hi   == DigitsSucc(lo)
                          loOk == Decimal(1, lo, exact.n - k) = x
                          hiOk == Decimal(1, hi, exact.n - k) = x
                          cmp  == DigitsCompare(SubSeq(exact.ds, k + 1, Len(exact.ds)), <<"5">>)
                      IN  IF hiOk /\ (~loOk \/ cmp > 0 \/ (cmp = 0 /\ DigitVal(lo[k]) % 2 = 1))
                          THEN [ds |-> StripTrailingZeros(hi), n |-> exact.n + (Len(hi) - k)]
                          ELSE IF loOk THEN [ds |-> lo, n |-> exact.n]
                          ELSE ShortestFrom(x, exact, k + 1)
                )
      [] op = "BigRadix" ->
            LET ds == arg1
                radix == arg2
            IN  (
                 IF ds = <<>> THEN <<>>
                 ELSE BigAdd(BigMulSmall(BigRadix(SubSeq(ds, 1, Len(ds) - 1), radix), radix),
                             BigOf(DigitVal(ds[Len(ds)])))
                )
      [] op = "RadixValue" ->
            LET ds == arg1
                radix == arg2
            IN  (
                 LET a == BigRadix(ds, radix)
                 IN  IF a = <<>> THEN Zero ELSE RoundToDouble(1, a, <<1>>)
                )
      [] op = "scanDecimal" ->
            LET c == arg1
                first == arg2
            IN  (
                 LET signed == first <= Len(c) /\ c[first] \in {"-", "+"}
                     sgn    == IF first <= Len(c) /\ c[first] = "-" THEN -1 ELSE 1
                     p      == IF signed THEN first + 1 ELSE first
                 IN  IF HasPrefix(c, p, <<"I", "n", "f", "i", "n", "i", "t", "y">>)
                     THEN [v |-> Infinity(sgn), end |-> p + 8]
                     ELSE scanFraction(c, first, sgn, p, Run(c, p, FALSE))
                )
      [] op = "parseFloatChars" ->
            LET c == arg1
            IN  (
                 scanDecimal(c, SkipWhite(c, 1)).v
                )
      [] op = "parseFloat" ->
            LET v == arg1
            IN  (
                 IF v.t = "number" THEN v.n
                 ELSE IF v.t = "string" THEN parseFloatChars(v.c)
                 ELSE IF v.t = "buffer" THEN parseFloatChars(BufferChars(v.c))
                 ELSE IF v.t = "array" /\ v.c # <<>> THEN Fin(v.c[1], 1)
                 ELSE NaN
                )
      [] op = "readFloatLE" ->
            LET b == arg1
            IN  (
                 LET sgn  == IF b[4] >= 128 THEN -1 ELSE 1
                     ex   == (b[4] % 128) * 2 + (b[3] \div 128)
                     mant == (b[3] % 128) * 65536 + b[2] * 256 + b[1]
                 IN  IF ex = 255 THEN (IF mant = 0 THEN Infinity(sgn) ELSE NaN)
                     ELSE IF ex = 0 THEN Double(sgn, BigOf(mant), 0 - 149)
                     ELSE Double(sgn, BigOf(8388608 + mant), ex - 150)
                )
      [] op = "NumberChars" ->
            LET x == arg1
            IN  (
                 LET sh   == ShortestFrom([x EXCEPT !.s = 1], ExactDigits(x), 1)
                     ds   == sh.ds
                     n    == sh.n
                     k    == Len(ds)
                     sign == IF x.s < 0 THEN <<"-">> ELSE <<>>
                 IN  IF x.k = "nan" THEN <<"N", "a", "N">>
                     ELSE IF x.k = "inf" THEN sign \o <<"I", "n", "f", "i", "n", "i", "t", "y">>
                     ELSE IF x = Zero THEN <<"0">>
                     ELSE IF k <= n /\ n <= 21 THEN sign \o ds \o [i \in 1..(n - k) |-> "0"]
                     ELSE IF 0 < n /\ n <= 21 THEN sign \o SubSeq(ds, 1, n) \o <<".">> \o SubSeq(ds, n + 1, k)
                     ELSE IF -6 < n /\ n <= 0 THEN sign \o <<"0", ".">> \o [i \in 1..(-n) |-> "0"] \o ds
                     ELSE sign \o <<ds[1]>> \o (IF k > 1 THEN <<".">> \o Tail(ds) ELSE <<>>)
                               \o <<"e", IF n < 1 THEN "-" ELSE "+">> \o IntChars(Abs(n - 1))
                )
      [] op = "StringToNumber" ->
            LET c == arg1
            IN  (
                 StringNumericLiteral(SubSeq(c, SkipWhite(c, 1), SkipWhiteBack(c, Len(c))))
                )
      [] op = "castString" ->
            LET v == arg1
            IN  (
                 IF v.t = "string" THEN [ok |-> TRUE, s |-> Join(v.c)]
                 ELSE IF v.t = "number" THEN [ok |-> TRUE, s |-> Join(NumberChars(v.n))]
                 ELSE IF v.t = "boolean" THEN [ok |-> TRUE, s |-> IF v.n = Zero THEN "false" ELSE "true"]
                 ELSE [ok |-> FALSE, s |-> ""]
                )
      [] op = "castNumber" ->
            LET v == arg1
            IN  (
                 IF v.t \in {"number", "boolean"} THEN [ok |-> ~isNaN(v.n), n |-> v.n]
                 ELSE IF v.t = "string"
                 THEN [ok |-> ~isNaN(StringToNumber(v.c)), n |-> StringToNumber(v.c)]
                 ELSE [ok |-> FALSE, n |-> Zero]
                )

\* payload.fw || fallback on a String path.
firmwareOr(payload, fallback) ==
    IF Truthy(payload.fw) THEN castString(payload.fw).s ELSE fallback

\* The firmware of the message can be cast to the String path of the schema.
firmwareCastable(payload) == Truthy(payload.fw) => castString(payload.fw).ok

\* new Telemetry(telemetryData) with the telemetryData object handleMessage
\* builds (lines 130-142): the values as the paths of the schema hold them,
\* castErrors the paths whose value could not be cast.
telemetryData(deviceId, payload, body, date) ==
    [deviceId   |-> deviceId,
     uid        |-> IF Truthy(payload.uid) THEN castString(payload.uid).s ELSE deviceId,
     firmware   |-> firmwareOr(payload, "unknown"),
     tts        |-> IF Truthy(payload.tts) THEN castNumber(payload.tts).n ELSE Zero,
     data       |-> decodeLittleEndianData(payload.data),
     timestamp  |-> date,
     receivedAt |-> date,
     rawPayload |-> body,
     castErrors |-> {f \in {"uid", "firmware", "tts"} :
                        CASE f = "uid" -> Truthy(payload.uid) /\ ~castString(payload.uid).ok
                          [] f = "firmware" -> ~firmwareCastable(payload)
                          [] f = "tts" -> Truthy(payload.tts) /\ ~castNumber(payload.tts).ok}]

\* Telemetry schema validation on save: no path failed its cast, deviceId
\* and uid are required (an empty string does not satisfy required), the
\* data fields are required Numbers (NaN is not castable to Number).
telemetryValid(doc) ==
    /\ doc.castErrors = {}
    /\ doc.deviceId # ""
    /\ doc.uid # ""
    /\ ~isNaN(doc.data.temperature)
    /\ ~isNaN(doc.data.humidity)
    /\ ~isNaN(doc.data.pm25)

\* telemetrySchema.methods.toAPIResponse
toAPIResponse(id, doc) ==
    [id |-> id, deviceId |-> doc.deviceId, uid |-> doc.uid, firmware |-> doc.firmware,
     tts |-> doc.tts,
     data |-> [temperature |-> ToFixed2(doc.data.temperature),
               humidity    |-> ToFixed2(doc.data.humidity),
               pm25        |-> ToFixed2(doc.data.pm25)],
     timestamp |-> doc.timestamp, receivedAt |-> doc.receivedAt]

(***************************************************************************)
(* Device collection.  A document's _id is its index in the sequence.      *)
(***************************************************************************)
\* The strings of the model that carry white space at an end, each with the
\* string String.prototype.trim makes of it.
Padded == {<<" d1", "d1">>}

\* The trim setter of the uid and name paths of deviceSchema ("trim: true").
\* Mongoose runs the setters of a path on values assigned to a document and
\* on the values of a query filter.
trim(s) ==
    IF \E p \in Padded : p[1] = s THEN (CHOOSE p \in Padded : p[1] = s)[2] ELSE s

\* A query that ignores its filter and answers with the first document.
findOneFirst(devs, uid) == IF Len(devs) > 0 THEN 1 ELSE NULL

\* Device.findOne({ uid }): the position of the document, NULL when none.
findOne(devs, uid) ==
    IF \E i \in 1..Len(devs) : devs[i].uid = trim(uid)
    THEN CHOOSE i \in 1..Len(devs) :
            devs[i].uid = trim(uid) /\ \A j \in 1..(i - 1) : devs[j].uid # trim(uid)
    ELSE NULL

\* A collection without the unique index on uid.
insertAllowedNoIndex(devs, doc) == doc.uid # "" /\ doc.name # ""

\* Insert of a new Device document: uid and name are required, and the unique
\* index on uid rejects a second document with the same uid.
insertAllowed(devs, doc) ==
    /\ doc.uid # ""
    /\ doc.name # ""
    /\ \A i \in 1..Len(devs) : devs[i].uid # doc.uid

\* Validation of a loaded document on save: uid and name are required.
updateAllowed(doc) == doc.uid # "" /\ doc.name # ""

\* save() of a loaded document: $set of the paths whose value was changed.
applyModified(cur, snap, doc) ==
    [uid        |-> cur.uid,
     name       |-> IF doc.name # snap.name THEN doc.name ELSE cur.name,
     firmware   |-> IF doc.firmware # snap.firmware THEN doc.firmware ELSE cur.firmware,
     isActive   |-> IF doc.isActive # snap.isActive THEN doc.isActive ELSE cur.isActive,
     lastSeen   |-> IF doc.lastSeen # snap.lastSeen THEN doc.lastSeen ELSE cur.lastSeen,
     location   |-> IF doc.location # snap.location THEN doc.location ELSE cur.location,
     deviceType |-> IF doc.deviceType # snap.deviceType THEN doc.deviceType ELSE cur.deviceType]

\* updateDevice: the new Device of the create branch (schema defaults filled
\* in, uid and name trimmed by their setters).
newDeviceFromMessage(deviceId, payload, date) ==
    [uid |-> trim(deviceId),
     name |-> trim("Device " \o deviceId),
     firmware |-> firmwareOr(payload, "unknown"),
     isActive |-> TRUE,
     lastSeen |-> date,
     location |-> "Unknown",
     deviceType |-> "sensor"]

\* An update branch that writes firmware the way the create branch does.
updatedDeviceFromMessageResetsFirmware(device, payload, date) ==
    [device EXCEPT !.firmware = firmwareOr(payload, "unknown"),
                   !.lastSeen = date,
                   !.isActive = TRUE]

\* updateDevice: the update branch.
updatedDeviceFromMessage(device, payload, date) ==
    [device EXCEPT !.firmware = firmwareOr(payload, @),
                   !.lastSeen = date,
                   !.isActive = TRUE]

SessionIds == 1..Len(sessions)

InitConn ==
    /\ mqttEnabled \in BOOLEAN
    /\ client = NULL
    /\ io = "null"
    /\ isConnected = FALSE
    /\ reconnectAttempts = 0
    /\ sessions = <<>>
    /\ raised = FALSE
    /\ hostPhase = "boot"
    /\ attemptsSinceConnect = 0
    /\ lastEvent = "new"

\* No request made yet, nothing on the page.
NoListing ==
    [pc |-> "idle", status |-> "all", all |-> <<>>, pending |-> {}, code |-> 0,
     answer |-> <<>>, devices |-> <<>>, view |-> <<>>, gets |-> 0, stale |-> {}]

\* No event received yet.
NothingReceived ==
    [devices |-> 0, telemetry |-> 0, last |-> [deviceId |-> "", lastSeen |-> 0], ofFirst |-> 0]

\* The seed script is not running.
NoSeed == [pc |-> "off", runs |-> 0, i |-> 0, doc |-> [uid |-> ""], readings |-> <<>>]

\* The registry when the server starts: empty, or holding a device that was
\* registered through POST /api/devices (lines 235-241) before the clock of
\* the model starts; such a device has no reading.
registeredDevices ==
    {<<>>,
     <<[uid |-> "d1",
        name |-> "Living Room Sensor",
        firmware |-> "unknown",
        isActive |-> TRUE,
        lastSeen |-> 0 - 1,
        location |-> "Living Room",
        deviceType |-> "environmental"]>>}

InitData ==
    /\ now = 0
    /\ devices \in registeredDevices
    /\ telemetry = <<>>
    /\ emitted = <<>>
    /\ handlers = <<>>
    /\ posts = <<>>
    /\ failures = 0
    /\ listing = NoListing
    /\ probe = [fn |-> "none"]
    /\ deviceUpdates = <<>>
    /\ telemetryUpdates = <<>>
    /\ received = NothingReceived
    /\ seed = NoSeed

\* The host calls mqttWorker.start(io) once while it boots.
Start ==
    /\ hostPhase = "boot"
    /\ \E socketIo \in {"null", "io"} : Becomes(start(Worker, socketIo, mqttEnabled))
    /\ hostPhase' = "running"
    /\ lastEvent' = "start"
    /\ UNCHANGED <<mqttEnabled, attemptsSinceConnect, dataVars>>

\* start(io) is called again on a worker that was started before: connect()
\* opens another session and leaves the previous one as it is.
Restart ==
    /\ hostPhase = "running"
    /\ Len(sessions) < MaxSessions
    /\ \E socketIo \in {"null", "io"} : Becomes(start(Worker, socketIo, mqttEnabled))
    /\ lastEvent' = "start"
    /\ UNCHANGED <<mqttEnabled, hostPhase, attemptsSinceConnect, dataVars>>

\* The host calls mqttWorker.stop(), in any state and any number of times;
\* it does not start the worker again afterwards.
Stop ==
    /\ Becomes(stop(Worker))
    /\ hostPhase' = "shutdown"
    /\ lastEvent' = IF lastEvent \in {"stop", "stopAgain"} THEN "stopAgain" ELSE "stop"
    /\ UNCHANGED <<mqttEnabled, attemptsSinceConnect, dataVars>>

\* The broker accepts the connection of the attempt that is under way.
EvConnect ==
    \E s \in SessionIds :
        /\ sessions[s].st \in {"connecting", "reconnecting", "lastAttempt"}
        /\ Becomes(onConnect(Worker, s))
        /\ attemptsSinceConnect' = 0
        /\ lastEvent' = IF sessions[s].st = "connecting" THEN "connect" ELSE "reconnected"
        /\ UNCHANGED <<mqttEnabled, hostPhase, dataVars>>

EvSubscribed ==
    \E s \in SessionIds, err \in BOOLEAN :
        /\ sessions[s].st = "connected"
        /\ sessions[s].sub = "pending"
        /\ Becomes(onSubscribed(Worker, s, err))
        /\ lastEvent' = "subscribed"
        /\ UNCHANGED <<mqttEnabled, hostPhase, attemptsSinceConnect, dataVars>>

EvError ==
    \E s \in SessionIds :
        /\ sessions[s].st \in {"connecting", "connected", "closed", "reconnecting",
                              "lastAttempt", "lingering"}
        /\ Becomes(onError(Worker, s))
        /\ lastEvent' = "error"
        /\ UNCHANGED <<mqttEnabled, hostPhase, attemptsSinceConnect, dataVars>>

EvClose ==
    \E s \in SessionIds :
        /\ sessions[s].st \in {"connecting", "connected", "reconnecting", "ending",
                              "lastAttempt", "lingering"}
        /\ Becomes(onClose(Worker, s))
        /\ lastEvent' = "close"
        /\ UNCHANGED <<mqttEnabled, hostPhase, attemptsSinceConnect, dataVars>>

EvOffline ==
    \E s \in SessionIds :
        /\ sessions[s].st = "closed"
        /\ Becomes(onOffline(Worker, s))
        /\ lastEvent' = "offline"
        /\ UNCHANGED <<mqttEnabled, hostPhase, attemptsSinceConnect, dataVars>>

\* The reconnect timer of session s fires: the library emits 'reconnect' and,
\* when the handler has returned, sets up the stream of the attempt.
EvReconnect ==
    \E s \in SessionIds :
        /\ sessions[s].st = "closed"
        /\ reconnectAttempts < MaxAttempts
        /\ LET w1 == onReconnect([Worker EXCEPT !.sessions[s].st = "announced"], s)
           IN  Becomes([w1 EXCEPT !.sessions[s].st =
                                      IF @ = "announced" THEN "reconnecting" ELSE @])
        /\ attemptsSinceConnect' = attemptsSinceConnect + 1
        /\ lastEvent' = "reconnect"
        /\ UNCHANGED <<mqttEnabled, hostPhase, dataVars>>

(***************************************************************************)
(* Message handling: client.on('message') -> handleMessage -> updateDevice *)
(* Every step is one database operation together with the continuation    *)
(* that runs when its reply arrives; the steps of different invocations    *)
(* interleave.                                                             *)
(***************************************************************************)
Payload(ty, uid, fw, tts, data) ==
    [t |-> ty, n |-> Fin(1, 1), c |-> <<"x">>, uid |-> uid, fw |-> fw, tts |-> tts, data |-> data]

Data(ty, temp, hum, pm25) ==
    [t |-> ty, n |-> Fin(1, 1), c |-> <<"x">>, temp |-> temp, hum |-> hum, pm25 |-> pm25]

NoData == Data("undefined", Undefined, Undefined, Undefined)

NoDoc == [deviceId |-> ""]

NoDevice == [uid |-> ""]

\* A handler invocation that has returned at one of the early returns.
Returned(msg, why) ==
    [msg |-> msg, pc |-> "done", outcome |-> why, deviceId |-> "", doc |-> NoDoc,
     reading |-> 0, devId |-> NULL, devSnap |-> NoDevice, devDoc |-> NoDevice,
     upsert |-> "none", emits |-> 0]

\* handleMessage up to its first await (lines 100-143).
handleMessage(msg, date) ==
    LET topicParts == split(msg.topic)
        parsed     == JSONparse(msg.body)
        deviceId   == topicParts[4]
    IN  IF ~topicAccepted(topicParts) THEN Returned(msg, "invalid topic")
        ELSE IF parsed.thrown THEN Returned(msg, "invalid json")
        ELSE IF ~validatePayload(parsed.payload) THEN Returned(msg, "invalid payload")
        ELSE [Returned(msg, "pending") EXCEPT
                !.pc = "saveTelemetry",
                !.deviceId = deviceId,
                !.doc = telemetryData(deviceId, parsed.payload, msg.body, date)]

\* The two io.emit calls in the opposite order.
emitUpdatesLivenessFirst(h, ioRef, date, sent) ==
    IF ioRef = "null" THEN <<>>
    ELSE SubSeq(<< [ev |-> "device:update", deviceId |-> h.deviceId, lastSeen |-> date],
                   [ev |-> "telemetry:new", deviceId |-> h.deviceId,
                    data |-> toAPIResponse(h.reading, h.doc)] >>,
                1, sent)

\* The two io.emit calls (lines 149-159); nothing is sent when this.io is
\* null.  sent is the number of emit calls that return before one throws
\* (2: none throws).
emitUpdates(h, ioRef, date, sent) ==
    IF ioRef = "null" THEN <<>>
    ELSE SubSeq(<< [ev |-> "telemetry:new", deviceId |-> h.deviceId,
                    data |-> toAPIResponse(h.reading, h.doc)],
                   [ev |-> "device:update", deviceId |-> h.deviceId, lastSeen |-> date] >>,
                1, sent)

\* What the transport can do with the two emit calls.
EmitOutcomes(ioRef) == IF ioRef = "null" THEN {2} ELSE 0..2

\* A handler whose error escapes: the promise of handleMessage rejects.
rethrown(h, why) == [h EXCEPT !.pc = "done", !.outcome = "rejected"]

\* The outer catch of handleMessage (lines 167-169): the error is logged and
\* the promise resolves.
caught(h, why) == [h EXCEPT !.pc = "done", !.outcome = why]

\* The emits without the "if (this.io)" guard: a null transport throws.
emitAndReturnUnguarded(h, up, ioRef, date, sent) ==
    LET h1 == [h EXCEPT !.upsert = up,
                        !.emits = Len(emitUpdates(h, ioRef, date, sent))]
    IN  IF ioRef = "null" \/ sent < 2
        THEN caught(h1, "emit failed")
        ELSE [h1 EXCEPT !.pc = "done", !.outcome = "processed"]

\* handleMessage after updateDevice has returned (lines 148-169): the emits,
\* then the normal return or the outer catch.
emitAndReturn(h, up, ioRef, date, sent) ==
    LET h1 == [h EXCEPT !.upsert = up,
                        !.emits = Len(emitUpdates(h, ioRef, date, sent))]
    IN  IF ioRef # "null" /\ sent < 2
        THEN caught(h1, "emit failed")
        ELSE [h1 EXCEPT !.pc = "done", !.outcome = "processed"]

InFlight == {i \in 1..Len(handlers) : handlers[i].pc # "done"}

\* The broker delivers a message on the subscribed session.
Deliver(msg) ==
    /\ Len(handlers) < MaxMsgs
    /\ Cardinality(InFlight) < MaxInFlight
    /\ \E s \in SessionIds : sessions[s].st = "connected" /\ sessions[s].sub = "ok"
    /\ handlers' = Append(handlers, handleMessage(msg, now))
    /\ UNCHANGED <<connVars, seed, viewVars, now, devices, telemetry, emitted, posts, failures>>

\* A database operation is answered (ok) or fails on a store outage.
StoreReplies(ok) ==
    /\ ~ok => failures < MaxFailures
    /\ failures' = IF ok THEN failures ELSE failures + 1

\* A handler that goes on to updateDevice although the save was rejected.
afterTelemetrySaveGoesOn(h, saved, id) ==
    [h EXCEPT !.pc = "findDevice", !.reading = IF saved THEN id ELSE 0]

\* handleMessage after await telemetry.save() (lines 143-146): on to
\* updateDevice, or into the outer catch when the save was rejected.
afterTelemetrySave(h, saved, id) ==
    IF saved
    THEN [h EXCEPT !.pc = "findDevice", !.reading = id]
    ELSE caught(h, "telemetry not saved")

\* A save that replaces the device's previous reading.
insertReadingReplaces(tele, doc) ==
    IF \E r \in 1..Len(tele) : tele[r].deviceId = doc.deviceId
    THEN [r \in 1..Len(tele) |-> IF tele[r].deviceId = doc.deviceId THEN doc ELSE tele[r]]
    ELSE Append(tele, doc)

\* save() of a new Telemetry document: an insert.
insertReading(tele, doc) == Append(tele, doc)

\* A save that stamps the document when the store is reached.
savedDocStampedAtSave(h, date) == [h.doc EXCEPT !.timestamp = date, !.receivedAt = date]

\* The document telemetry.save() writes: the one built from telemetryData
\* before the await, with the timestamp taken then.
savedDoc(h, date) == h.doc

\* await telemetry.save(): validation, then the insert.
MsgSaveTelemetry(i, ok) ==
    /\ handlers[i].pc = "saveTelemetry"
    /\ LET saved == ok /\ telemetryValid(handlers[i].doc)
       IN  /\ telemetry' = IF saved THEN insertReading(telemetry, savedDoc(handlers[i], now))
                                    ELSE telemetry
           /\ handlers' = [handlers EXCEPT
                            ![i] = afterTelemetrySave(@, saved, Len(telemetry) + 1)]
    /\ StoreReplies(ok)
    /\ UNCHANGED <<connVars, seed, viewVars, now, devices, emitted, posts>>

\* updateDevice: await Device.findOne, then the create or update branch up to
\* device.save().  A failed query is caught inside updateDevice and
\* handleMessage goes on to emit.
MsgFindDevice(i, ok, sent) ==
    /\ handlers[i].pc = "findDevice"
    /\ LET h       == handlers[i]
           payload == JSONparse(h.msg.body).payload
           id      == findOne(devices, h.deviceId)
       IN  IF ~ok
           THEN /\ sent \in EmitOutcomes(io)
                /\ handlers' = [handlers EXCEPT
                        ![i] = emitAndReturn(h, "failed", io, now, sent)]
                /\ emitted' = emitted \o emitUpdates(h, io, now, sent)
           ELSE /\ sent = 2
                /\ handlers' = [handlers EXCEPT
                        ![i].pc = "saveDevice",
                        ![i].devId = id,
                        ![i].devSnap = IF id = NULL THEN NoDevice ELSE devices[id],
                        ![i].devDoc = IF id = NULL
                                      THEN newDeviceFromMessage(h.deviceId, payload, now)
                                      ELSE updatedDeviceFromMessage(devices[id], payload, now)]
                /\ UNCHANGED emitted
    /\ StoreReplies(ok)
    /\ UNCHANGED <<connVars, seed, viewVars, now, devices, telemetry, posts>>

\* updateDevice: await device.save() (its failure, a firmware that cannot be
\* cast included, is caught and logged), then the rest of handleMessage: the
\* two emits.
MsgSaveDevice(i, ok, sent) ==
    /\ handlers[i].pc = "saveDevice"
    /\ LET h    == handlers[i]
           done == IF ~ok \/ ~firmwareCastable(JSONparse(h.msg.body).payload) THEN "failed"
                   ELSE IF h.devId = NULL
                        THEN (IF insertAllowed(devices, h.devDoc) THEN "created" ELSE "failed")
                        ELSE (IF updateAllowed(h.devDoc) THEN "updated" ELSE "failed")
       IN  /\ devices' = CASE done = "created" -> Append(devices, h.devDoc)
                           [] done = "updated" ->
                                [devices EXCEPT ![h.devId] = applyModified(@, h.devSnap, h.devDoc)]
                           [] OTHER -> devices
           /\ sent \in EmitOutcomes(io)
           /\ handlers' = [handlers EXCEPT ![i] = emitAndReturn(h, done, io, now, sent)]
           /\ emitted' = emitted \o emitUpdates(h, io, now, sent)
    /\ StoreReplies(ok)
    /\ UNCHANGED <<connVars, seed, viewVars, now, telemetry, posts>>

\* Time passes.
Tick ==
    /\ now < MaxClock
    /\ now' = now + 1
    /\ UNCHANGED <<connVars, seed, viewVars, devices, telemetry, emitted, handlers, posts, failures>>

(***************************************************************************)
(* POST /api/devices.  An absent body member and an empty string are both  *)
(* falsy and are both written "".                                          *)
(***************************************************************************)
Answered(body, status, message) ==
    [body |-> body, pc |-> "done", status |-> status, message |-> message,
     devId |-> NULL, devSnap |-> NoDevice, devDoc |-> NoDevice, isNew |-> FALSE]

Or(a, b) == IF a # "" THEN a ELSE b

\* A handler without the test of uid and name.
postDevicesNoCheck(body) == [Answered(body, 0, "") EXCEPT !.pc = "find"]

\* The handler up to Device.findOne (lines 213-224).
postDevices(body) ==
    IF body.uid = "" \/ body.name = ""
    THEN Answered(body, 400, "UID and name are required")
    ELSE [Answered(body, 0, "") EXCEPT !.pc = "find"]

\* An update branch that writes location and deviceType as they came.
updatedDeviceFromPostOverwrites(device, body, date) ==
    [device EXCEPT !.name = trim(body.name),
                   !.location = body.location,
                   !.deviceType = body.deviceType,
                   !.lastSeen = date]

\* The update branch (lines 227-231); the name goes through the trim setter.
updatedDeviceFromPost(device, body, date) ==
    [device EXCEPT !.name = trim(body.name),
                   !.location = Or(body.location, @),
                   !.deviceType = Or(body.deviceType, @),
                   !.lastSeen = date]

\* The create branch (lines 235-240), schema defaults filled in.
newDeviceFromPost(body, date) ==
    [uid |-> trim(body.uid),
     name |-> trim(body.name),
     firmware |-> "unknown",
     isActive |-> TRUE,
     lastSeen |-> date,
     location |-> Or(body.location, "Unknown"),
     deviceType |-> Or(body.deviceType, "sensor")]

\* The answer after a successful save (lines 244-248): save() has cleared
\* isNew on the document by then.
postAnswer(isNewAfterSave) ==
    IF isNewAfterSave THEN "Device created successfully" ELSE "Device updated successfully"

PostReceive(body) ==
    /\ Len(posts) < MaxPosts
    /\ posts' = Append(posts, postDevices(body))
    /\ UNCHANGED <<connVars, seed, viewVars, now, devices, telemetry, emitted, handlers, failures>>

PostFind(i, ok) ==
    /\ posts[i].pc = "find"
    /\ LET r  == posts[i]
           id == findOne(devices, r.body.uid)
       IN  posts' = [posts EXCEPT ![i] =
                IF ~ok
                THEN Answered(r.body, 500, "Server error while creating/updating device")
                ELSE [r EXCEPT
                        !.pc = "save",
                        !.devId = id,
                        !.isNew = (id = NULL),
                        !.devSnap = IF id = NULL THEN NoDevice ELSE devices[id],
                        !.devDoc = IF id = NULL THEN newDeviceFromPost(r.body, now)
                                   ELSE updatedDeviceFromPost(devices[id], r.body, now)]]
    /\ StoreReplies(ok)
    /\ UNCHANGED <<connVars, seed, viewVars, now, devices, telemetry, emitted, handlers>>

PostSave(i, ok) ==
    /\ posts[i].pc = "save"
    /\ LET r    == posts[i]
           done == IF ~ok THEN "failed"
                   ELSE IF r.devId = NULL
                        THEN (IF insertAllowed(devices, r.devDoc) THEN "created" ELSE "failed")
                        ELSE (IF updateAllowed(r.devDoc) THEN "updated" ELSE "failed")
       IN  /\ devices' = CASE done = "created" -> Append(devices, r.devDoc)
                           [] done = "updated" ->
                                [devices EXCEPT ![r.devId] = applyModified(@, r.devSnap, r.devDoc)]
                           [] OTHER -> devices
           /\ posts' = [posts EXCEPT ![i] =
                IF done = "failed"
                THEN [r EXCEPT !.pc = "done", !.status = 500,
                               !.message = "Server error while creating/updating device"]
                ELSE [r EXCEPT !.pc = "done", !.status = 200, !.isNew = FALSE,
                               !.message = postAnswer(FALSE)]]
    /\ StoreReplies(ok)
    /\ UNCHANGED <<connVars, seed, viewVars, now, telemetry, emitted, handlers>>

(***************************************************************************)
(* GET /api/devices and the liveness status.  The clock counts             *)
(* milliseconds.                                                           *)
(***************************************************************************)
\* 1000 * 60
MsPerMinute == 60000

\* minutesAgo < 5
OnlineMinutes == 5

\* minutesAgo < 30
WarningMinutes == 30

\* Telemetry.getLatestByDevice(uid): the reading of the device with the
\* greatest timestamp (the earliest stored among equals), NULL when none.
getLatestByDevice(tele, deviceId) ==
    LET own == {r \in 1..Len(tele) : tele[r].deviceId = deviceId}
    IN  IF own = {} THEN NULL
        ELSE CHOOSE r \in own :
                \A q \in own :
                    \/ tele[q].timestamp < tele[r].timestamp
                    \/ tele[q].timestamp = tele[r].timestamp /\ q >= r

\* A status whose boundaries fall in the better bucket.
getDeviceStatusInclusive(device, date) ==
    IF device.latestReading = NULL THEN "offline"
    ELSE IF date - device.lastSeen <= OnlineMinutes * MsPerMinute THEN "online"
    ELSE IF date - device.lastSeen <= WarningMinutes * MsPerMinute THEN "warning"
    ELSE "offline"

\* getDeviceStatus(device) at the instant date.  lastSeen is always set (the
\* schema gives it a default), so the fallback to the reading's timestamp is
\* never taken.
getDeviceStatus(device, date) ==
    IF device.latestReading = NULL THEN "offline"
    ELSE IF date - device.lastSeen < OnlineMinutes * MsPerMinute THEN "online"
    ELSE IF date - device.lastSeen < WarningMinutes * MsPerMinute THEN "warning"
    ELSE "offline"

\* Device.find(query).sort({ lastSeen: -1 }): insertion into a list that is
\* already sorted, latest first.
RECURSIVE sortByLastSeen(_)
sortByLastSeen(devs) ==
    IF devs = <<>> THEN <<>>
    ELSE LET rest  == sortByLastSeen(Tail(devs))
             d     == Head(devs)
             ahead == {k \in 1..Len(rest) : rest[k].lastSeen > d.lastSeen}
         IN  SubSeq(rest, 1, Cardinality(ahead)) \o <<d>>
                \o SubSeq(rest, Cardinality(ahead) + 1, Len(rest))

\* One device of the answer: the record with its latest reading attached.
withTelemetry(device, tele) ==
    [uid |-> device.uid, name |-> device.name, lastSeen |-> device.lastSeen,
     latestReading |-> getLatestByDevice(tele, device.uid)]

\* Keep the devices whose status is the one asked for ("all": every device).
RECURSIVE filterByStatus(_, _, _)
filterByStatus(list, status, date) ==
    IF list = <<>> THEN <<>>
    ELSE IF status = "all" \/ getDeviceStatus(Head(list), date) = status
         THEN <<Head(list)>> \o filterByStatus(Tail(list), status, date)
         ELSE filterByStatus(Tail(list), status, date)

\* The instants at which something happens when minutes pass between events.
Instants == {0, 300000, 1800000}

\* DevicesPage: every device of the page's state with the status badge the
\* page computes for it when it renders at the instant date (its own
\* getDeviceStatus, the same function).
shown(list, date) ==
    [i \in 1..Len(list) |->
        [uid |-> list[i].uid, name |-> list[i].name, lastSeen |-> list[i].lastSeen,
         latestReading |-> list[i].latestReading,
         status |-> getDeviceStatus(list[i], date), at |-> date]]

\* GET /api/devices?status=... up to the answer of Device.find (lines 11-29):
\* the devices as they are stored then, latest first; the queries for their
\* latest readings go out together.  Without a device the handler answers at
\* once; a failed query is answered with 500.  All devices fit on one page.
GetFind(status, ok) ==
    /\ listing.pc \in {"idle", "shown"}
    /\ listing.gets < MaxGets
    /\ LET allDevices == sortByLastSeen(devices)
           started    == [listing EXCEPT !.status = status, !.gets = @ + 1, !.code = 0,
                                         !.answer = <<>>, !.all = <<>>, !.pending = {}]
       IN  listing' =
                IF ~ok THEN [started EXCEPT !.pc = "answered", !.code = 500]
                ELSE IF allDevices = <<>> THEN [started EXCEPT !.pc = "answered", !.code = 200]
                ELSE [started EXCEPT
                        !.pc = "telemetry",
                        !.all = [i \in 1..Len(allDevices) |-> withTelemetry(allDevices[i], <<>>)],
                        !.pending = 1..Len(allDevices)]
    /\ StoreReplies(ok)
    /\ UNCHANGED <<connVars, seed, probe, clientVars, now, devices, telemetry, emitted, handlers, posts>>

\* The answer of Telemetry.getLatestByDevice for device j of the request
\* (lines 32-40), read from the readings stored then.  After the last one
\* the handler filters by status with the clock of that instant and answers
\* (lines 42-83); a failed query is answered with 500.
GetLatest(j, ok) ==
    /\ listing.pc = "telemetry"
    /\ j \in listing.pending
    /\ LET all  == [listing.all EXCEPT ![j] = withTelemetry(@, telemetry)]
           left == listing.pending \ {j}
       IN  listing' =
                IF ~ok THEN [listing EXCEPT !.pc = "answered", !.code = 500, !.pending = {}]
                ELSE IF left # {} THEN [listing EXCEPT !.all = all, !.pending = left]
                ELSE [listing EXCEPT !.all = all, !.pending = left, !.pc = "answered",
                                     !.code = 200,
                                     !.answer = filterByStatus(all, listing.status, now)]
    /\ StoreReplies(ok)
    /\ UNCHANGED <<connVars, seed, probe, clientVars, now, devices, telemetry, emitted, handlers, posts>>

\* DevicesPage.fetchDevices after the answer has arrived: a successful answer
\* replaces the devices state, a failure leaves it; the page renders.
PageReceive ==
    /\ listing.pc = "answered"
    /\ LET devs == IF listing.code = 200 THEN listing.answer ELSE listing.devices
       IN  listing' = [listing EXCEPT !.pc = "shown", !.devices = devs,
                                      !.view = shown(devs, now)]
    /\ UNCHANGED <<connVars, seed, probe, clientVars, now, devices, telemetry, emitted, handlers, posts,
                   failures>>

\* DevicesPage renders again later: the badges are computed anew with the
\* clock of the render.
Render ==
    /\ listing.view # shown(listing.devices, now)
    /\ listing' = [listing EXCEPT !.view = shown(listing.devices, now)]
    /\ UNCHANGED <<connVars, seed, probe, clientVars, now, devices, telemetry, emitted, handlers, posts,
                   failures>>

\* Minutes pass.
Wait(t) ==
    /\ t > now
    /\ now' = t
    /\ UNCHANGED <<connVars, seed, viewVars, devices, telemetry, emitted, handlers, posts, failures>>

(***************************************************************************)
(* scripts/seedDatabase.js, a program of its own on the same database.     *)
(* Each await on the collections of the model is a step; the users the     *)
(* script creates first are not part of the model.                         *)
(***************************************************************************)
\* const sampleDevices (lines 345-364)
sampleDevices ==
    <<[uid |-> "device-001", name |-> "Living Room Sensor", location |-> "Living Room",
       deviceType |-> "environmental"],
      [uid |-> "device-002", name |-> "Bedroom Sensor", location |-> "Bedroom",
       deviceType |-> "environmental"],
      [uid |-> "device-003", name |-> "Kitchen Sensor", location |-> "Kitchen",
       deviceType |-> "environmental"]>>

\* Runs of the seed script.
MaxSeeds == 2

\* for (let i = 0; i < 10; i++)
SampleReadings == 10

\* What Math.random() gives for the readings of one device, as the
\* hundredths toFixed(2) makes of them: temperature 20 + r * 10, humidity
\* 40 + r * 40 and pm25 r * 50 for each of the readings.
SampleDraws ==
    {[i \in 1..SampleReadings |->
        [temperature |-> 2000 + ((r + 97 * i) % 1001),
         humidity    |-> 4000 + ((4 * r + 389 * i) % 4001),
         pm25        |-> (5 * r + 487 * i) % 5001]] : r \in {0, 1000}}

\* new Device(deviceData) (line 370): the defaults of the schema filled in.
newDeviceFromSeed(deviceData, date) ==
    [uid |-> trim(deviceData.uid),
     name |-> trim(deviceData.name),
     firmware |-> "unknown",
     isActive |-> TRUE,
     lastSeen |-> date,
     location |-> deviceData.location,
     deviceType |-> deviceData.deviceType]

\* The sample readings of a device (lines 375-394), built at the instant
\* date: one for every 5 minutes back from it, no rawPayload.
sampleReadings(deviceData, date, draws) ==
    [k \in 1..SampleReadings |->
        LET timestamp == date - (k - 1) * 5 * 60 * 1000
        IN  [deviceId   |-> deviceData.uid,
             uid        |-> deviceData.uid,
             firmware   |-> "1.0.0",
             tts        |-> Fin(timestamp \div 1000, 1),
             data       |-> [temperature |-> Fin(draws[k].temperature, 100),
                             humidity    |-> Fin(draws[k].humidity, 100),
                             pm25        |-> Fin(draws[k].pm25, 100)],
             timestamp  |-> timestamp,
             receivedAt |-> timestamp,
             rawPayload |-> Undefined,
             castErrors |-> {}]]

\* The script goes on to the next sample device, or ends after the last.
seedNext(sd) ==
    IF sd.i < Len(sampleDevices)
    THEN [sd EXCEPT !.pc = "find", !.i = @ + 1, !.doc = NoSeed.doc, !.readings = <<>>]
    ELSE [sd EXCEPT !.pc = "off", !.i = 0, !.doc = NoSeed.doc, !.readings = <<>>]

\* The script ends in its catch and finally blocks (lines 409-415).
seedEnds(sd) == [sd EXCEPT !.pc = "off", !.i = 0, !.doc = NoSeed.doc, !.readings = <<>>]

\* The script is run (node scripts/seedDatabase.js) and comes to the loop
\* over the sample devices.
SeedStart ==
    /\ seed.pc = "off"
    /\ seed.runs < MaxSeeds
    /\ seed' = [seed EXCEPT !.pc = "find", !.i = 1, !.runs = @ + 1]
    /\ UNCHANGED <<connVars, viewVars, now, devices, telemetry, emitted, handlers, posts,
                   failures>>

\* After await Device.findOne({ uid }) (lines 367-371): a device that exists
\* is left as it is, a new one is built and its save is sent.
SeedFind(ok) ==
    /\ seed.pc = "find"
    /\ seed' = IF ~ok THEN seedEnds(seed)
               ELSE IF findOne(devices, sampleDevices[seed.i].uid) # NULL THEN seedNext(seed)
               ELSE [seed EXCEPT !.pc = "save",
                                 !.doc = newDeviceFromSeed(sampleDevices[seed.i], now)]
    /\ StoreReplies(ok)
    /\ UNCHANGED <<connVars, viewVars, now, devices, telemetry, emitted, handlers, posts>>

\* After await device.save() (lines 371-396): the sample readings are built
\* with the clock of this instant and insertMany is sent.
SeedSave(ok, draws) ==
    /\ seed.pc = "save"
    /\ LET saved == ok /\ insertAllowed(devices, seed.doc)
       IN  /\ devices' = IF saved THEN Append(devices, seed.doc) ELSE devices
           /\ seed' = IF ~saved THEN seedEnds(seed)
                      ELSE [seed EXCEPT
                                !.pc = "insert",
                                !.readings = sampleReadings(sampleDevices[seed.i], now, draws)]
    /\ StoreReplies(ok)
    /\ UNCHANGED <<connVars, viewVars, now, telemetry, emitted, handlers, posts>>

\* After await Telemetry.insertMany(sampleReadings) (lines 396-397).
SeedInsert(ok) ==
    /\ seed.pc = "insert"
    /\ telemetry' = IF ok THEN telemetry \o seed.readings ELSE telemetry
    /\ seed' = IF ok THEN seedNext(seed) ELSE seedEnds(seed)
    /\ StoreReplies(ok)
    /\ UNCHANGED <<connVars, viewVars, now, devices, emitted, handlers, posts>>

(***************************************************************************)
(* Inputs.                                                                 *)
(***************************************************************************)
Topic(id) == <<"/", "application", "/", "out", "/", id>>

DeviceIds == {"d1", "d2"}

\* Topics of every shape: well-formed, empty device id, three and five
\* segments, wrong second or third segment, text before the first separator.
Topics ==
    {Topic("d1"), Topic("d2"),
     <<"/", "application", "/", "out", "/">>,
     <<"application", "/", "out", "/", "d1">>,
     <<"/", "application", "/", "out", "/", "d1", "/", "x">>,
     <<"/", "app", "/", "out", "/", "d1">>,
     <<"/", "application", "/", "in", "/", "d1">>,
     <<"x", "/", "application", "/", "out", "/", "d1">>}

Reading(temp, hum, pm25) == Data("object", temp, hum, pm25)

Json(payload) == [wf |-> TRUE, json |-> payload]

Fw2 == JString(<<"2", ".", "0">>)

Hex10 == JString(<<"4", "1", "2", "0", "0", "0", "0", "0">>)

GoodData == Reading(JNumber(Fin(2146, 100)), Hex10, JArray(<<0, 0, 200, 65>>))

\* { "fw": "2.0", "tts": 7, "data": {...} } and { "data": {...} }
GoodBodies ==
    {Json(Payload("object", Undefined, Fw2, JNumber(Fin(7, 1)), GoodData)),
     Json(Payload("object", Undefined, Undefined, Undefined, GoodData))}

\* Messages of one device, with and without a firmware hint.
SameDeviceMsgs == [topic : {Topic("d1")}, body : GoodBodies]

PostBody(uid, name, location, deviceType) ==
    [uid |-> uid, name |-> name, location |-> location, deviceType |-> deviceType]

\* An explicit registration of the device the messages come from.
RegisterD1 == {PostBody("d1", "Lab sensor", "Lab", "")}

GoodBody == Json(Payload("object", Undefined, Fw2, JNumber(Fin(7, 1)), GoodData))

Num21 == JNumber(Fin(2146, 100))

\* Bodies the validation must drop: malformed text; a JSON null, number,
\* string or array; an object without data; data that is null, a number, a
\* string or an array; a data object lacking one of the three fields.
DefectiveBodies ==
    {[wf |-> FALSE, json |-> Payload("undefined", Undefined, Undefined, Undefined, NoData)],
     Json(Payload("null", Undefined, Undefined, Undefined, NoData)),
     Json(Payload("number", Undefined, Undefined, Undefined, NoData)),
     Json(Payload("string", Undefined, Undefined, Undefined, NoData)),
     Json(Payload("array", Undefined, Undefined, Undefined, NoData)),
     Json(Payload("object", Undefined, Fw2, Undefined, NoData)),
     Json(Payload("object", Undefined, Fw2, Undefined, Data("null", Undefined, Undefined, Undefined))),
     Json(Payload("object", Undefined, Fw2, Undefined, Data("number", Undefined, Undefined, Undefined))),
     Json(Payload("object", Undefined, Fw2, Undefined, Data("string", Undefined, Undefined, Undefined))),
     Json(Payload("object", Undefined, Fw2, Undefined, Data("array", Undefined, Undefined, Undefined))),
     Json(Payload("object", Undefined, Fw2, Undefined, Reading(Undefined, Hex10, Num21))),
     Json(Payload("object", Undefined, Fw2, Undefined, Reading(Num21, Undefined, Hex10))),
     Json(Payload("object", Undefined, Fw2, Undefined, Reading(Num21, Hex10, Undefined)))}

\* Bodies whose three fields are present but of no numeric or encoded type:
\* null, a boolean, a nested object, an array of two bytes.
WrongTypedBodies ==
    {Json(Payload("object", Undefined, Fw2, Undefined, Reading(JNull, JTrue, JObject))),
     Json(Payload("object", Undefined, Fw2, Undefined, Reading(JArray(<<1, 2>>), Num21, Hex10)))}

\* A hex string of nine digits: writeUInt32LE throws on its value and the
\* decoder falls back to parseFloat for all three fields.
Hex9 == JString(<<"f", "f", "f", "f", "f", "f", "f", "f", "f">>)

AnomalousBody ==
    Json(Payload("object", Undefined, Fw2, Undefined,
                 Reading(Hex9, Hex10, JArray(<<0, 0, 200, 65>>))))

\* Every topic with a good body, and the good topic with every body.
ProbeMsgs ==
    [topic : Topics, body : {GoodBody}]
        \cup [topic : {Topic("d1")},
              body : DefectiveBodies \cup WrongTypedBodies \cup {AnomalousBody}]

NextValidate ==
    \/ Start
    \/ EvConnect
    \/ EvSubscribed
    \/ Tick
    \/ \E msg \in ProbeMsgs : Deliver(msg)
    \/ \E i \in 1..Len(handlers), ok \in BOOLEAN : MsgSaveTelemetry(i, ok)
    \/ \E i \in 1..Len(handlers), ok \in BOOLEAN, sent \in 0..2 : MsgFindDevice(i, ok, sent)
    \/ \E i \in 1..Len(handlers), ok \in BOOLEAN, sent \in 0..2 : MsgSaveDevice(i, ok, sent)

\* One message of device d1 and one of device d2 that differ in every field:
\* { "fw": "2.0", "tts": 7, "data": {...} } on /application/out/d1 and
\* { "uid": "u2", "fw": "3.1", "tts": 9, "data": { "temp": 5, "hum": 6,
\* "pm2.5": 7 } } on /application/out/d2.
MsgD1 == [topic |-> Topic("d1"), body |-> GoodBody]

MsgD2 ==
    [topic |-> Topic("d2"),
     body |-> Json(Payload("object", JString(<<"u", "2">>), JString(<<"3", ".", "1">>),
                           JNumber(Fin(9, 1)),
                           Reading(JNumber(Fin(5, 1)), JNumber(Fin(6, 1)), JNumber(Fin(7, 1)))))]

TwoDeviceMsgs == {MsgD1, MsgD2}

NextTwoDevices ==
    \/ Start
    \/ EvConnect
    \/ EvSubscribed
    \/ Tick
    \/ \E msg \in TwoDeviceMsgs : Deliver(msg)
    \/ \E i \in 1..Len(handlers), ok \in BOOLEAN : MsgSaveTelemetry(i, ok)
    \/ \E i \in 1..Len(handlers), ok \in BOOLEAN, sent \in 0..2 : MsgFindDevice(i, ok, sent)
    \/ \E i \in 1..Len(handlers), ok \in BOOLEAN, sent \in 0..2 : MsgSaveDevice(i, ok, sent)

(***************************************************************************)
(* The decoder called on its own: one 32-bit pattern in every input shape, *)
(* and a data object with fields of every type.                            *)
(***************************************************************************)
HexDigit(n, upper) ==
    IF n < 10 THEN DecDigits[n + 1] ELSE IF upper THEN HexUpper[n - 9] ELSE HexLower[n - 9]

\* The eight hex digits of the pattern whose little-endian bytes are b.
HexOf(b, upper) ==
    << HexDigit(b[4] \div 16, upper), HexDigit(b[4] % 16, upper),
       HexDigit(b[3] \div 16, upper), HexDigit(b[3] % 16, upper),
       HexDigit(b[2] \div 16, upper), HexDigit(b[2] % 16, upper),
       HexDigit(b[1] \div 16, upper), HexDigit(b[1] % 16, upper) >>

\* Bytes that build, among others, the patterns of 10.0 (00 00 20 41),
\* 25.0 (00 00 c8 41), NaN (00 00 c0 7f), Infinity (00 00 80 7f), negative
\* numbers, and numbers below 2^-8 and above 2^31.
PatternBytes == {0, 32, 65, 127, 128, 192, 200}

Patterns == {<<b1, b2, b3, b4>> : b1 \in {0, 32}, b2 \in {0, 200}, b3 \in PatternBytes, b4 \in PatternBytes}

\* littleEndianToFloat on the pattern b in each shape: the number the
\* pattern stands for, the hex text (lower case, upper case, with 0x), the
\* buffer and the array of the four bytes.  The result of a call depends on
\* its argument only, so a behaviour holds one call.
DecodePattern(b) ==
    /\ probe.fn = "none"
    /\ probe' = [fn       |-> "littleEndianToFloat",
                 bytes    |-> b,
                 number   |-> littleEndianToFloat(JNumber(readFloatLE(b))),
                 hex      |-> littleEndianToFloat(JString(HexOf(b, FALSE))),
                 hexUpper |-> littleEndianToFloat(JString(HexOf(b, TRUE))),
                 hex0x    |-> littleEndianToFloat(JString(<<"0", "x">> \o HexOf(b, FALSE))),
                 buffer   |-> littleEndianToFloat(JBuffer(b)),
                 array    |-> littleEndianToFloat(JArray(b))]
    /\ UNCHANGED <<connVars, seed, listing, clientVars, now, devices, telemetry, emitted, handlers, posts,
                   failures>>

Chars0x(c) == JString(<<"0", "x">> \o c)

\* Field values of every type: numbers of two and of three decimals; hex
\* text of 8 digits with and without 0x; 0x before text that is no hex;
\* hex text of 9 digits with and without 0x; text of 2 and of 9 decimal
\* digits; decimal text with a fraction, other text and
\* the empty text; buffers and arrays of 4, 2 and 0 bytes; null, a boolean,
\* an object.
FieldValues ==
    <<JNumber(Fin(2146, 100)), JNumber(Fin(21456, 1000)),
     Hex10, Chars0x(<<"4", "1", "c", "8", "0", "0", "0", "0">>),
     Chars0x(<<"z", "z">>),
     Hex9, Chars0x(<<"1", "2", "3", "4", "5", "6", "7", "8", "9">>),
     JString(<<"2", "5">>), JString(<<"1", "2", "3", "4", "5", "6", "7", "8", "9">>),
     JString(<<"1", "2", ".", "3", "4", "5">>), JString(<<"n", "/", "a">>), JString(<<>>),
     JBuffer(<<0, 0, 200, 65>>), JBuffer(<<49, 50>>),
     JArray(<<0, 0, 200, 65>>), JArray(<<1, 2>>), JArray(<<>>),
     JNull, JTrue, JObject>>

\* decodeLittleEndianData on a data object with the three fields present.
DecodeData(temp, hum, pm25) ==
    /\ probe.fn = "none"
    /\ probe' = [fn   |-> "decodeLittleEndianData",
                 data |-> Reading(temp, hum, pm25),
                 ret  |-> decodeLittleEndianData(Reading(temp, hum, pm25))]
    /\ UNCHANGED <<connVars, seed, listing, clientVars, now, devices, telemetry, emitted, handlers, posts,
                   failures>>

\* littleEndianToFloat on one field value.
DecodeField(v) ==
    /\ probe.fn = "none"
    /\ probe' = [fn |-> "field", value |-> v, ret |-> littleEndianToFloat(v)]
    /\ UNCHANGED <<connVars, seed, listing, clientVars, now, devices, telemetry, emitted, handlers, posts,
                   failures>>

NextDecode ==
    \/ \E f \in 1..Len(FieldValues) : DecodeField(FieldValues[f])
    \/ \E b \in Patterns : DecodePattern(b)
    \/ \E t \in 1..Len(FieldValues), h \in 1..Len(FieldValues), p \in 1..Len(FieldValues) :
            DecodeData(FieldValues[t], FieldValues[h], FieldValues[p])

(***************************************************************************)
(* The realtime client (SocketProvider).  A device is named by a number,   *)
(* 0 is no device.                                                         *)
(***************************************************************************)
\* updated.slice(-50)
KeepDeviceUpdates == 50

\* updated.slice(0, 100)
KeepTelemetryUpdates == 100

\* A device:update handler that always pushes.
onDeviceUpdateAlwaysPushes(prev, data, date) ==
    LET entry   == [deviceId |-> data.deviceId, lastSeen |-> data.lastSeen, timestamp |-> date]
        updated == Append(prev, entry)
    IN  SubSeq(updated, IF Len(updated) > KeepDeviceUpdates
                        THEN Len(updated) - KeepDeviceUpdates + 1 ELSE 1, Len(updated))

\* newSocket.on('device:update'): the updater passed to setDeviceUpdates.
onDeviceUpdate(prev, data, date) ==
    LET entry   == [deviceId |-> data.deviceId, lastSeen |-> data.lastSeen, timestamp |-> date]
        found   == {i \in 1..Len(prev) : prev[i].deviceId = data.deviceId}
        updated == IF found # {}
                   THEN [prev EXCEPT ![CHOOSE i \in found : \A j \in found : i <= j] = entry]
                   ELSE Append(prev, entry)
    IN  SubSeq(updated, IF Len(updated) > KeepDeviceUpdates
                        THEN Len(updated) - KeepDeviceUpdates + 1 ELSE 1, Len(updated))

\* newSocket.on('telemetry:new'): the updater passed to setTelemetryUpdates.
onTelemetryNew(prev, data, date) ==
    LET updated == <<[deviceId |-> data.deviceId, data |-> data.data, timestamp |-> date]>> \o prev
    IN  SubSeq(updated, 1, IF Len(updated) > KeepTelemetryUpdates
                           THEN KeepTelemetryUpdates ELSE Len(updated))

\* DevicesPage, the effect on telemetryUpdates (lines 104-123): the devices
\* state after it.  latestReading holds the id of the reading of the update.
onTelemetryUpdates(prevDevices, updates) ==
    IF Len(updates) > 0
    THEN LET latestUpdate == updates[Len(updates)]
         IN  [i \in 1..Len(prevDevices) |->
                IF prevDevices[i].uid = latestUpdate.deviceId
                THEN [prevDevices[i] EXCEPT !.latestReading = latestUpdate.data.id,
                                            !.lastSeen = latestUpdate.timestamp]
                ELSE prevDevices[i]]
    ELSE prevDevices

\* DevicesPage, the effect on deviceUpdates (lines 126-142); the events carry
\* no status.
onDeviceUpdates(prevDevices, updates) ==
    IF Len(updates) > 0
    THEN LET latestUpdate == updates[Len(updates)]
         IN  [i \in 1..Len(prevDevices) |->
                IF prevDevices[i].uid = latestUpdate.deviceId
                THEN [prevDevices[i] EXCEPT !.lastSeen = latestUpdate.timestamp]
                ELSE prevDevices[i]]
    ELSE prevDevices

\* The page after an effect has changed its devices state: it renders.
Rendered(devs) == [listing EXCEPT !.devices = devs, !.view = shown(devs, now)]

\* The uid of the k-th device that talks to the client.
DeviceName(k) == "d" \o ToString(k)

\* The socket delivers a device:update event: the first one of the next
\* device (lastSeen 0), or a later one of device d1 (lastSeen 1).  The
\* listener sets deviceUpdates (lines 63-78 of SocketProvider); the effect of
\* DevicesPage that depends on it is due after the render that follows.
ClientDeviceUpdate(data) ==
    /\ \/ data.deviceId = DeviceName(received.devices + 1) /\ data.lastSeen = 0
       \/ data.deviceId = DeviceName(1) /\ data.lastSeen = 1 /\ received.devices >= 1
    /\ deviceUpdates' = onDeviceUpdate(deviceUpdates, data, now)
    /\ listing' = [listing EXCEPT !.stale = @ \cup {"deviceUpdates"}]
    /\ received' = [received EXCEPT
                        !.devices = IF data.lastSeen = 0 THEN @ + 1 ELSE @,
                        !.last = data,
                        !.ofFirst = IF data.deviceId = DeviceName(1) THEN data.lastSeen ELSE @]
    /\ UNCHANGED <<connVars, seed, probe, telemetryUpdates, now, devices, telemetry, emitted,
                   handlers, posts, failures>>

\* The socket delivers a telemetry:new event; data.id counts the events.
\* The listener sets telemetryUpdates (lines 81-87); the effect of DevicesPage
\* that depends on it is due after the render that follows.
ClientTelemetryNew(data) ==
    /\ data.data.id = received.telemetry + 1
    /\ telemetryUpdates' = onTelemetryNew(telemetryUpdates, data, now)
    /\ listing' = [listing EXCEPT !.stale = @ \cup {"telemetryUpdates"}]
    /\ received' = [received EXCEPT !.telemetry = data.data.id]
    /\ UNCHANGED <<connVars, seed, probe, deviceUpdates, now, devices, telemetry, emitted,
                   handlers, posts, failures>>

\* DevicesPage after the render that followed a change of telemetryUpdates or
\* deviceUpdates: the effects whose dependency has changed run in the order
\* of their declaration (lines 104-123, then lines 126-142), each on the
\* array of that render, whatever the number of events since the render
\* before; the page renders the devices state they leave.
RunEffects ==
    /\ listing.stale # {}
    /\ LET afterTelemetry == IF "telemetryUpdates" \in listing.stale
                             THEN onTelemetryUpdates(listing.devices, telemetryUpdates)
                             ELSE listing.devices
           afterDevices   == IF "deviceUpdates" \in listing.stale
                             THEN onDeviceUpdates(afterTelemetry, deviceUpdates)
                             ELSE afterTelemetry
       IN  listing' = [Rendered(afterDevices) EXCEPT !.stale = {}]
    /\ UNCHANGED <<connVars, seed, probe, clientVars, now, devices, telemetry, emitted, handlers,
                   posts, failures>>

\* clearUpdates() of the socket context (lines 171-174): both arrays are set
\* to a new empty array.  The count of the events received starts anew.
ClearUpdates ==
    /\ deviceUpdates' = <<>>
    /\ telemetryUpdates' = <<>>
    /\ received' = NothingReceived
    /\ listing' = [listing EXCEPT !.stale = {"telemetryUpdates", "deviceUpdates"}]
    /\ UNCHANGED <<connVars, seed, probe, now, devices, telemetry, emitted, handlers, posts,
                   failures>>

\* The events a client receives, more than its arrays keep, before its page
\* has listed a device.
NextClient ==
    \/ \E k \in 1..MaxClientDevices, seen \in {0, 1} :
            ClientDeviceUpdate([deviceId |-> DeviceName(k), lastSeen |-> seen])
    \/ \E n \in 1..MaxClientEvents :
            ClientTelemetryNew([deviceId |-> DeviceName(1), data |-> [id |-> n]])
    \/ RunEffects
    \/ ClearUpdates

\* The sessions the broker delivers to: connected and subscribed.
LiveSessions(ss) == {s \in 1..Len(ss) : ss[s].st = "connected" /\ ss[s].sub = "ok"}

\* The messages the broker has sent to the sessions and the worker has not
\* handled yet.
Queued(ss) ==
    LET RECURSIVE Sum(_)
        Sum(k) == IF k = 0 THEN 0 ELSE Len(ss[k].inbox) + Sum(k - 1)
    IN  Sum(Len(ss))

\* The broker publishes one message: it goes to every subscribed session.
Publish(msg) ==
    LET live == LiveSessions(sessions)
    IN  /\ live # {}
        /\ Len(handlers) + Queued(sessions) + Cardinality(live) <= MaxMsgs
        /\ sessions' = [s \in 1..Len(sessions) |->
                            IF s \in live THEN [sessions[s] EXCEPT !.inbox = Append(@, msg)]
                            ELSE sessions[s]]
        /\ UNCHANGED <<mqttEnabled, client, io, isConnected, reconnectAttempts, raised,
                       hostPhase, attemptsSinceConnect, lastEvent, dataVars>>

\* client.on('message') of session s (lines 63-65): the callback of that
\* session runs handleMessage on the next message the broker has sent to it.
EvMessage(s) ==
    /\ sessions[s].inbox # <<>>
    /\ handlers' = Append(handlers, handleMessage(Head(sessions[s].inbox), now))
    /\ sessions' = [sessions EXCEPT ![s].inbox = Tail(@)]
    /\ UNCHANGED <<mqttEnabled, client, io, isConnected, reconnectAttempts, raised, hostPhase,
                   attemptsSinceConnect, lastEvent, seed, viewVars, now, devices, telemetry,
                   emitted, posts, failures>>

\* The connection events with a second start, and the messages the broker
\* publishes meanwhile.
NextRestart ==
    \/ Start
    \/ Restart
    \/ Stop
    \/ EvConnect
    \/ EvSubscribed
    \/ EvError
    \/ EvClose
    \/ EvOffline
    \/ EvReconnect
    \/ Publish(MsgD1)
    \/ \E s \in SessionIds : EvMessage(s)
    \/ \E i \in 1..Len(handlers) : MsgSaveTelemetry(i, TRUE)

\* { "uid": "u9", "data": {...} }: a uid of its own, no fw, no tts.
UidBody ==
    Json(Payload("object", JString(<<"u", "9">>), Undefined, Undefined, GoodData))

\* Messages of d1 with and without uid, fw and tts, and a message whose
\* topic ends in an id with a leading blank: /application/out/ d1.
IdentityMsgs ==
    {MsgD1, [topic |-> Topic("d1"), body |-> UidBody],
     [topic |-> Topic(" d1"), body |-> GoodBody]}

NextIdentity ==
    \/ Start
    \/ EvConnect
    \/ EvSubscribed
    \/ Tick
    \/ \E msg \in IdentityMsgs : Deliver(msg)
    \/ \E i \in 1..Len(handlers) : MsgSaveTelemetry(i, TRUE)
    \/ \E i \in 1..Len(handlers) : MsgFindDevice(i, TRUE, 2)
    \/ \E i \in 1..Len(handlers) : MsgSaveDevice(i, TRUE, 2)

\* Messages of d1 whose temp is hex text of a special pattern: 7f800000
\* (Infinity) and 7fc00000 (NaN), and the ordinary message.
EncodedMsgs ==
    {MsgD1,
     [topic |-> Topic("d1"),
      body |-> Json(Payload("object", Undefined, Fw2, Undefined,
                    Reading(JString(<<"7", "f", "8", "0", "0", "0", "0", "0">>), Hex10, Num21)))],
     [topic |-> Topic("d1"),
      body |-> Json(Payload("object", Undefined, Fw2, Undefined,
                    Reading(JString(<<"7", "f", "c", "0", "0", "0", "0", "0">>), Hex10, Num21)))]}

NextEncoded ==
    \/ Start
    \/ EvConnect
    \/ EvSubscribed
    \/ Tick
    \/ \E msg \in EncodedMsgs : Deliver(msg)
    \/ \E i \in 1..Len(handlers) : MsgSaveTelemetry(i, TRUE)
    \/ \E i \in 1..Len(handlers) : MsgFindDevice(i, TRUE, 2)
    \/ \E i \in 1..Len(handlers) : MsgSaveDevice(i, TRUE, 2)

\* Registrations of d1 and of d2, each with location and without
\* deviceType, and without location and with deviceType.
RegisterPosts ==
    {PostBody("d1", "Lab sensor", "Lab", ""),
     PostBody("d1", "Lab sensor", "", "probe"),
     PostBody("d2", "Hall sensor", "Hall", ""),
     PostBody("d2", "Hall sensor", "", "probe")}

\* One registration next to the messages of d1.
NextRegister ==
    \/ Start
    \/ EvConnect
    \/ EvSubscribed
    \/ Tick
    \/ Deliver(MsgD1)
    \/ \E i \in 1..Len(handlers) : MsgSaveTelemetry(i, TRUE)
    \/ \E i \in 1..Len(handlers) : MsgFindDevice(i, TRUE, 2)
    \/ \E i \in 1..Len(handlers) : MsgSaveDevice(i, TRUE, 2)
    \/ \E body \in RegisterPosts : PostReceive(body)
    \/ \E i \in 1..Len(posts) : PostFind(i, TRUE)
    \/ \E i \in 1..Len(posts) : PostSave(i, TRUE)

\* A message of d1 and a message on a topic that is turned away.
RegistryMsgs ==
    {MsgD1, [topic |-> <<"/", "app", "/", "out", "/", "d1">>, body |-> GoodBody]}

\* A registration of d1 and one without uid.
RegistryPosts ==
    {PostBody("d1", "Lab sensor", "Lab", ""),
     PostBody("", "Lab sensor", "Lab", "")}

\* The listing unfiltered and filtered by one status.
StatusFilters == {"all", "warning"}

NextRegistry ==
    \/ Start
    \/ EvConnect
    \/ EvSubscribed
    \/ \E t \in Instants : Wait(t)
    \/ \E msg \in RegistryMsgs : Deliver(msg)
    \/ \E i \in 1..Len(handlers) : MsgSaveTelemetry(i, TRUE)
    \/ \E i \in 1..Len(handlers) : MsgFindDevice(i, TRUE, 2)
    \/ \E i \in 1..Len(handlers) : MsgSaveDevice(i, TRUE, 2)
    \/ \E body \in RegistryPosts : PostReceive(body)
    \/ \E i \in 1..Len(posts) : PostFind(i, TRUE)
    \/ \E i \in 1..Len(posts) : PostSave(i, TRUE)
    \/ \E status \in StatusFilters : GetFind(status, TRUE)
    \/ \E j \in 1..Len(devices) : GetLatest(j, TRUE)
    \/ PageReceive
    \/ Render

\* Ages of lastSeen around the two thresholds, in milliseconds, and the
\* instants lastSeen was written at.
Ages == {0, 1, 299999, 300000, 300001, 1799999, 1800000, 1800001, 86400000}

LastSeens == {0, 1, 299999, 1500000}

\* A registry holding device d1, last seen at an instant of LastSeens, with
\* no reading or with the reading stored at that instant, looked at when
\* lastSeen has one of the Ages.
InitStatus ==
    /\ InitConn
    /\ \E seen \in LastSeens, age \in Ages, stored \in BOOLEAN :
        /\ now = seen + age
        /\ devices = <<newDeviceFromMessage("d1", GoodBody.json, seen)>>
        /\ telemetry = IF stored
                       THEN <<telemetryData("d1", GoodBody.json, GoodBody, seen)>>
                       ELSE <<>>
    /\ emitted = <<>>
    /\ handlers = <<>>
    /\ posts = <<>>
    /\ failures = 0
    /\ listing = NoListing
    /\ probe = [fn |-> "none"]
    /\ deviceUpdates = <<>>
    /\ telemetryUpdates = <<>>
    /\ received = NothingReceived
    /\ seed = NoSeed

\* One listing, asked for with any filter, answered or failing, shown at once
\* or minutes later, and the events of device d1 the page receives.
NextStatus ==
    \/ \E status \in {"all", "online", "warning", "offline"}, ok \in BOOLEAN : GetFind(status, ok)
    \/ \E j \in 1..Len(devices), ok \in BOOLEAN : GetLatest(j, ok)
    \/ PageReceive
    \/ Render
    \/ \E t \in Instants : Wait(t)
    \/ \E seen \in {0, 1} : ClientDeviceUpdate([deviceId |-> DeviceName(1), lastSeen |-> seen])
    \/ ClientTelemetryNew([deviceId |-> DeviceName(1), data |-> [id |-> 1]])
    \/ RunEffects
    \/ ClearUpdates

NextMsg ==
    \/ Start
    \/ EvConnect
    \/ EvSubscribed
    \/ Tick
    \/ \E msg \in SameDeviceMsgs : Deliver(msg)
    \/ \E i \in 1..Len(handlers), ok \in BOOLEAN : MsgSaveTelemetry(i, ok)
    \/ \E i \in 1..Len(handlers), ok \in BOOLEAN, sent \in 0..2 : MsgFindDevice(i, ok, sent)
    \/ \E i \in 1..Len(handlers), ok \in BOOLEAN, sent \in 0..2 : MsgSaveDevice(i, ok, sent)
    \/ \E body \in RegisterD1 : PostReceive(body)
    \/ \E i \in 1..Len(posts), ok \in BOOLEAN : PostFind(i, ok)
    \/ \E i \in 1..Len(posts), ok \in BOOLEAN : PostSave(i, ok)

NextConn ==
    \/ Start
    \/ Stop
    \/ EvConnect
    \/ EvSubscribed
    \/ EvError
    \/ EvClose
    \/ EvOffline
    \/ EvReconnect

Init == InitConn /\ InitData

\* A registration of the first sample device and one of another device.
SeedPosts ==
    {PostBody("device-001", "Lab sensor", "", ""),
     PostBody("d1", "Lab sensor", "", "probe")}

\* The seed script run next to a server that answers a registration.
NextSeed ==
    \/ SeedStart
    \/ \E ok \in BOOLEAN : SeedFind(ok)
    \/ \E ok \in BOOLEAN, draws \in SampleDraws : SeedSave(ok, draws)
    \/ \E ok \in BOOLEAN : SeedInsert(ok)
    \/ Tick
    \/ \E body \in SeedPosts : PostReceive(body)
    \/ \E i \in 1..Len(posts) : PostFind(i, TRUE)
    \/ \E i \in 1..Len(posts) : PostSave(i, TRUE)

Next == NextConn \/ NextMsg \/ NextValidate \/ NextTwoDevices \/ NextRegistry \/ NextIdentity
            \/ NextDecode \/ NextEncoded \/ NextRegister
            \/ NextRestart \/ NextClient \/ NextSeed

Spec == Init /\ [][Next]_vars

SpecConn == Init /\ [][NextConn]_vars

SpecMsg == Init /\ [][NextMsg]_vars

SpecValidate == Init /\ [][NextValidate]_vars

SpecIdentity == Init /\ [][NextIdentity]_vars

SpecDecode == Init /\ [][NextDecode]_vars

SpecEncoded == Init /\ [][NextEncoded]_vars

SpecRegister == Init /\ [][NextRegister]_vars

SpecRestart == Init /\ [][NextRestart]_vars

SpecClient == Init /\ [][NextClient]_vars

SpecTwoDevices == Init /\ [][NextTwoDevices]_vars

SpecRegistry == Init /\ [][NextRegistry]_vars

SpecStatus == InitStatus /\ [][NextStatus]_vars

SpecSeed == Init /\ [][NextSeed]_vars

TypeOK ==
    /\ client \in 0..Len(sessions)
    /\ isConnected \in BOOLEAN
    /\ reconnectAttempts \in 0..maxReconnectAttempts
    /\ \A s \in SessionIds : sessions[s].st \in LibStates
    /\ raised = FALSE
(***************************************************************************)
(* Connection Manager properties                                           *)
(***************************************************************************)

\* The session this.client refers to has been ended by end().
SessionOver ==
    /\ client # NULL
    /\ sessions[client].st \in {"ending", "ended", "lastAttempt", "lingering"}

AtCeiling == reconnectAttempts >= maxReconnectAttempts

\* C1: once the reconnect counter has reached maxReconnectAttempts the worker
\* has ended its session and reports connected = false, and from a session
\* the running worker has given up no step leads to connected = true or to
\* another reconnect attempt, whatever broker events follow.
C1_GivenUpTerminal ==
    /\ [](AtCeiling => (SessionOver /\ ~getStatus(Worker).connected))
    /\ [][(hostPhase = "running" /\ SessionOver) =>
            /\ ~getStatus(Worker').connected
            /\ attemptsSinceConnect' = attemptsSinceConnect
            /\ lastEvent' # "reconnect"]_vars

C8_StopIdempotent ==
    [][/\ (lastEvent' \in {"stop", "stopAgain"} => ~raised')
       /\ (lastEvent' = "stopAgain" => Worker' = Worker)]_vars

\* C8 witness: stop() ran twice in a row on a worker that owns a session.
C8_Witness == lastEvent = "stopAgain" /\ client # NULL

\* C9: right after a 'connect' event (first connect or a connect that follows
\* reconnect attempts) getStatus() is {connected: true, reconnectAttempts: 0}.
C9_ConnectResets ==
    lastEvent \in {"connect", "reconnected"} =>
        getStatus(Worker) = [connected |-> TRUE, reconnectAttempts |-> 0]

\* C9 witness: a connect that followed at least one reconnect attempt.
C9_Witness == lastEvent = "reconnected" /\ isConnected /\ reconnectAttempts = 0

\* C10: the counter equals the number of 'reconnect' events since the last
\* 'connect' (or since start): a 'reconnect' event adds exactly one to it, a
\* 'connect' event sets it to 0 and no other event changes it; and, as long as
\* the host has not stopped the worker, the session is given up (end() is
\* called on it) in exactly the 'reconnect' event that is the tenth in a row.
C10_CounterCountsAttempts ==
    /\ [](reconnectAttempts = attemptsSinceConnect)
    /\ [][/\ lastEvent' = "reconnect" => reconnectAttempts' = reconnectAttempts + 1
          /\ lastEvent' \in {"connect", "reconnected"} => reconnectAttempts' = 0
          /\ lastEvent' \notin {"reconnect", "connect", "reconnected"} =>
                reconnectAttempts' = reconnectAttempts
          /\ (hostPhase' = "running" /\ client # NULL) =>
                ((~SessionOver /\ SessionOver') <=>
                    (lastEvent' = "reconnect" /\ attemptsSinceConnect' = maxReconnectAttempts))]_vars

\* C10 witness: the tenth consecutive attempt has just been counted and the
\* session was given up in that event.
C10_Witness ==
    /\ lastEvent = "reconnect"
    /\ attemptsSinceConnect = maxReconnectAttempts
    /\ hostPhase = "running"
    /\ sessions[client].st = "lastAttempt"

\* C11: after an 'error', 'close' or 'offline' event getStatus().connected is
\* false, and connected only ever turns from false to true in a 'connect'
\* event.
C11_DownUntilConnect ==
    [][/\ lastEvent' \in {"error", "close", "offline"} => ~getStatus(Worker').connected
       /\ (~getStatus(Worker).connected /\ getStatus(Worker').connected)
            => lastEvent' \in {"connect", "reconnected"}]_vars

\* C11 witness: an 'error' arrived on a session whose handshake had succeeded
\* and whose stream is still open; the worker reports not connected.
C11_Witness ==
    /\ lastEvent = "error"
    /\ client # NULL
    /\ sessions[client].st = "connected"
    /\ ~getStatus(Worker).connected

\* C12: with ingestion disabled no broker session is ever created and the
\* worker stays disconnected with a reconnect counter of 0.
C12_DisabledStaysIdle ==
    ~mqttEnabled =>
        /\ sessions = <<>>
        /\ client = NULL
        /\ getStatus(Worker) = [connected |-> FALSE, reconnectAttempts |-> 0]
        /\ lastEvent \in {"new", "start", "stop", "stopAgain"}

\* C12 witness: the disabled worker was started with a realtime transport and
\* later stopped.
C12_Witness ==
    /\ ~mqttEnabled
    /\ io = "io"
    /\ hostPhase = "shutdown"

\* C13: the step in which a subscription fails changes neither the connected
\* flag nor the reconnect counter (which is 0) nor the session: the session
\* stays connected and stays the worker's client.
C13_SubscribeFailureKeepsState ==
    [][\A s \in SessionIds :
        (sessions[s].sub = "pending" /\ sessions'[s].sub = "failed") =>
            /\ getStatus(Worker') = getStatus(Worker)
            /\ reconnectAttempts' = 0
            /\ client' = client
            /\ sessions'[s].st = "connected"]_vars

\* C13 witness: the subscription of a connected session has failed and the
\* worker still reports connected.
C13_Witness ==
    /\ lastEvent = "subscribed"
    /\ client # NULL
    /\ sessions[client].st = "connected"
    /\ sessions[client].sub = "failed"
    /\ getStatus(Worker) = [connected |-> TRUE, reconnectAttempts |-> 0]

(***************************************************************************)
(* Device Registry properties                                              *)
(***************************************************************************)

\* C2: with message handlers only (no explicit registration), a stored
\* lastSeen never moves backwards: every committed lastSeen is >= the one it
\* replaces, in every interleaving of the handlers' find / modify / save steps.
C2_LastSeenNeverBackwards ==
    [][posts = <<>> =>
        \A i \in 1..Len(devices) : devices'[i].lastSeen >= devices[i].lastSeen]_vars

\* C3: the registry never holds two records with the same uid, and once the
\* handling of a message has stored its reading and its upsert has gone
\* through, the device of that uid exists and is active; whenever a handled
\* message's device exists it is active.
C3_OneRecordPerUid ==
    /\ \A i, j \in 1..Len(devices) : devices[i].uid = devices[j].uid => i = j
    /\ \A i \in 1..Len(handlers) :
        LET h  == handlers[i]
            id == findOne(devices, h.deviceId)
        IN  (h.pc = "done" /\ h.reading # 0) =>
                /\ (h.upsert \in {"created", "updated"} => id # NULL)
                /\ (id # NULL => devices[id].isActive)

\* C3 witness: two first messages of the unknown device d1 were handled
\* concurrently (the second insert hit the unique index, no store outage) and
\* an explicit registration of d1 went through as well.
C3_Witness ==
    /\ failures = 0
    /\ Len(devices) = 1
    /\ \E i, j \in 1..Len(handlers) :
        /\ handlers[i].devId = NULL /\ handlers[j].devId = NULL
        /\ handlers[i].pc = "done" /\ handlers[i].upsert = "created"
        /\ handlers[j].pc = "done" /\ handlers[j].upsert = "failed"
    /\ \E k \in 1..Len(posts) : posts[k].status = 200

(***************************************************************************)
(* Payload Validator properties                                            *)
(***************************************************************************)

\* The handling stored no reading, upserted no device and emitted no event.
NoTrace(h) ==
    /\ h.reading = 0
    /\ h.upsert = "none"
    /\ h.emits = 0

\* The handler returned before touching the store.
Dropped(h) ==
    /\ h.pc = "done"
    /\ h.devId = NULL
    /\ NoTrace(h)

\* The topic has the form /application/out/<deviceId>.
WellFormedTopic(topic) ==
    LET parts == split(topic)
    IN  /\ Len(parts) = 4
        /\ parts[1] = ""
        /\ parts[2] = "application"
        /\ parts[3] = "out"

\* C4: a message whose topic is anything other than /application/out/<id>
\* (not 4 segments, wrong prefix or wrong middle segment) is dropped: no
\* reading, no registry mutation, no event, no exception.
C4_BadTopicDropped ==
    /\ ~raised
    /\ \A i \in 1..Len(handlers) :
        ~WellFormedTopic(handlers[i].msg.topic) => NoTrace(handlers[i])

\* The body is malformed text, not an object, has no data object, or its data
\* object lacks temp, hum or pm2.5.
Defective(body) ==
    \/ ~body.wf
    \/ body.json.t # "object"
    \/ body.json.data.t # "object"
    \/ body.json.data.temp.t = "undefined"
    \/ body.json.data.hum.t = "undefined"
    \/ body.json.data.pm25.t = "undefined"

\* C5: a message with a defective body is dropped: no reading is stored, no
\* device is created or updated, no event is emitted.
C5_DefectiveBodyDropped ==
    \A i \in 1..Len(handlers) :
        Defective(handlers[i].msg.body) =>
            /\ Dropped(handlers[i])
            /\ \A r \in 1..Len(telemetry) : telemetry[r].rawPayload # handlers[i].msg.body

\* C5 witness: a well-formed body on a well-formed topic whose data object
\* lacks pm2.5 was dropped after an earlier message had been processed.
C5_Witness ==
    \E i, j \in 1..Len(handlers) :
        /\ i < j
        /\ handlers[i].outcome = "processed"
        /\ Len(devices) = 1
        /\ WellFormedTopic(handlers[j].msg.topic)
        /\ handlers[j].msg.body.wf
        /\ handlers[j].msg.body.json.data.t = "object"
        /\ handlers[j].msg.body.json.data.pm25.t = "undefined"
        /\ handlers[j].outcome = "invalid payload"

\* A field value that is neither a number nor one of the encodings.
WrongTyped(v) ==
    \/ v.t \in {"null", "boolean", "object"}
    \/ v.t = "array" /\ Len(v.c) # 4

\* C6: a body whose three fields are present but one of them wrong-typed is
\* rejected: no reading stored, no device created or updated.
C6_WrongTypedRejected ==
    \A i \in 1..Len(handlers) :
        LET body == handlers[i].msg.body
        IN  (/\ ~Defective(body)
             /\ \/ WrongTyped(body.json.data.temp)
                \/ WrongTyped(body.json.data.hum)
                \/ WrongTyped(body.json.data.pm25))
            => handlers[i].reading = 0 /\ handlers[i].upsert = "none"

(***************************************************************************)
(* Realtime Notifier properties                                            *)
(***************************************************************************)

\* The message was turned away before anything was stored.
Rejected(h) ==
    h.outcome \in {"invalid topic", "invalid json", "invalid payload", "telemetry not saved"}

C15_EmitNeverFailsIngestion ==
    \A i \in 1..Len(handlers) :
        LET h == handlers[i]
        IN  (h.pc = "done" /\ h.reading # 0) =>
                /\ h.outcome \in {"processed", "emit failed"}
                /\ io = "null" => (h.outcome = "processed" /\ h.emits = 0)
                /\ h.reading \in 1..Len(telemetry)
                /\ telemetry[h.reading] = h.doc
                /\ failures = 0 => findOne(devices, h.deviceId) # NULL

\* C15 witness: the emit of the first message threw; its reading and device
\* are stored, and the next message was processed and announced normally.
C15_Witness ==
    /\ Len(handlers) = 2
    /\ handlers[1].outcome = "emit failed"
    /\ handlers[1].reading = 1
    /\ handlers[1].upsert = "created"
    /\ handlers[2].outcome = "processed"
    /\ handlers[2].emits = 2
    /\ handlers[2].upsert = "updated"
    /\ Len(telemetry) = 2

(***************************************************************************)
(* Error containment                                                       *)
(***************************************************************************)

\* C16: whatever goes wrong while a message is handled (bad topic, malformed
\* JSON, invalid shape, a decode that throws, a failed telemetry save, a
\* failed device query or save, a throwing emit), the promise of
\* handleMessage never rejects and no exception escapes the worker: a handler
\* is either awaiting the store or has returned with one of the logged
\* outcomes.
C16_NoErrorEscapes ==
    /\ ~raised
    /\ \A i \in 1..Len(handlers) :
        LET h == handlers[i]
        IN  /\ h.outcome # "rejected"
            /\ h.pc \in {"saveTelemetry", "findDevice", "saveDevice", "done"}
            /\ h.pc = "done" <=>
                h.outcome \in {"invalid topic", "invalid json", "invalid payload",
                               "telemetry not saved", "emit failed", "processed"}

\* C16 witness: the body of one message made the decoder throw and fall back,
\* its device save failed and its first emit threw; another message had a bad
\* topic.  Both handlers returned.
C16_Witness ==
    \E i, j \in 1..Len(handlers) :
        /\ handlers[i].msg.body = AnomalousBody
        /\ handlers[i].upsert = "failed"
        /\ handlers[i].outcome = "emit failed"
        /\ handlers[i].emits = 0
        /\ handlers[j].outcome = "invalid topic"

\* C17: a message whose reading is not in the store has touched nothing: no
\* device query, no upsert, no event.  The step in which the save of a
\* reading fails changes neither the readings nor the registry nor the
\* emitted events, and the handler never runs again afterwards (no retry).
C17_LostReadingTouchesNothing ==
    /\ [](\A i \in 1..Len(handlers) :
            handlers[i].reading = 0 =>
                /\ handlers[i].pc \in {"saveTelemetry", "done"}
                /\ handlers[i].devId = NULL
                /\ NoTrace(handlers[i]))
    /\ [][\A i \in 1..Len(handlers) :
            /\ (handlers[i].pc = "saveTelemetry" /\ handlers'[i].reading = 0
                    /\ handlers'[i].pc # "saveTelemetry")
                => (/\ handlers'[i].pc = "done"
                    /\ UNCHANGED <<telemetry, devices, emitted>>)
            /\ handlers[i].outcome = "telemetry not saved" => handlers'[i] = handlers[i]]_vars

\* C17 witness: the reading of the first message of an unknown device was
\* lost on a store outage; the next message was processed, and the store
\* holds only that second reading.
C17_Witness ==
    /\ Len(handlers) = 2
    /\ handlers[1].outcome = "telemetry not saved"
    /\ handlers[2].outcome = "processed"
    /\ handlers[2].upsert = "created"
    /\ Len(telemetry) = 1
    /\ Len(emitted) = 2

(***************************************************************************)
(* Independence of devices                                                 *)
(***************************************************************************)

\* C18: with a message of d1 and a message of d2 in flight together, every
\* stored reading and every device record carries the values of its own
\* message only, and once both messages are processed without a store outage
\* there is one reading and one device record for each of d1 and d2.
C18_NoCrossContamination ==
    /\ \A r \in 1..Len(telemetry) :
        /\ telemetry[r].deviceId \in {"d1", "d2"}
        /\ telemetry[r].deviceId = "d1" =>
            /\ telemetry[r].uid = "d1"
            /\ telemetry[r].firmware = "2.0"
            /\ telemetry[r].tts = Fin(7, 1)
            /\ telemetry[r].data = [temperature |-> Fin(2146, 100), humidity |-> Fin(10, 1),
                                    pm25 |-> Fin(25, 1)]
        /\ telemetry[r].deviceId = "d2" =>
            /\ telemetry[r].uid = "u2"
            /\ telemetry[r].firmware = "3.1"
            /\ telemetry[r].tts = Fin(9, 1)
            /\ telemetry[r].data = [temperature |-> Fin(5, 1), humidity |-> Fin(6, 1),
                                    pm25 |-> Fin(7, 1)]
    /\ \A d \in 1..Len(devices) :
        /\ devices[d].uid = "d1" =>
            /\ devices[d].firmware \in {"unknown", "2.0"}
            /\ devices[d].name \in {"Device d1", "Living Room Sensor"}
        /\ devices[d].uid = "d2" =>
            /\ devices[d].firmware = "3.1"
            /\ devices[d].name = "Device d2"
    /\ \A i \in 1..Len(handlers) :
        (handlers[i].reading # 0) =>
            telemetry[handlers[i].reading].rawPayload = handlers[i].msg.body
    /\ (/\ failures = 0
        /\ Len(handlers) = 2
        /\ handlers[1].pc = "done" /\ handlers[2].pc = "done"
        /\ handlers[1].deviceId # handlers[2].deviceId)
        => /\ Len(telemetry) = 2
           /\ telemetry[1].deviceId # telemetry[2].deviceId
           /\ Len(devices) = 2
           /\ {devices[1].uid, devices[2].uid} = {"d1", "d2"}
           /\ \A i \in 1..2 : handlers[i].upsert \in {"created", "updated"}

\* C18 witness: both devices were unknown, both messages were in flight at the
\* same time (each handler found no device before either had saved one), and
\* both have been processed.
C18_Witness ==
    /\ failures = 0
    /\ Len(handlers) = 2
    /\ handlers[1].deviceId = "d2" /\ handlers[2].deviceId = "d1"
    /\ handlers[1].upsert = "created" /\ handlers[2].upsert = "created"
    /\ handlers[1].outcome = "processed" /\ handlers[2].outcome = "processed"
    /\ telemetry[1].deviceId = "d1"
    /\ devices[1].uid = "d1"

(***************************************************************************)
(* Message-driven upsert                                                   *)
(***************************************************************************)

\* The firmware hint of a message as text: "unknown" when the body has none.
FirmwareHint(body) ==
    IF body.json.fw.t = "undefined" THEN "unknown" ELSE Join(body.json.fw.c)

\* C19: the step in which the upsert of a message creates the device adds
\* exactly one record, with uid equal to the id in the topic, name
\* "Device <id>", isActive true and the firmware of the message ("unknown"
\* without a hint); and once a message that found its device unknown has been
\* processed, a record with that uid and name exists and is active.
C19_FirstMessageCreatesDevice ==
    /\ [][\A i \in 1..Len(handlers) :
            (handlers[i].pc = "saveDevice" /\ handlers'[i].upsert = "created") =>
                LET id == split(handlers[i].msg.topic)[4]
                    d  == devices'[Len(devices')]
                IN  /\ findOne(devices, id) = NULL
                    /\ devices' = Append(devices, d)
                    /\ d.uid = id
                    /\ d.name = "Device " \o id
                    /\ d.isActive
                    /\ d.firmware = FirmwareHint(handlers[i].msg.body)]_vars
    /\ [](\A i \in 1..Len(handlers) :
            (handlers[i].outcome = "processed" /\ handlers[i].devId = NULL) =>
                \E d \in 1..Len(devices) :
                    /\ devices[d].uid = split(handlers[i].msg.topic)[4]
                    /\ devices[d].name = "Device " \o devices[d].uid
                    /\ devices[d].isActive)

\* C20: the step in which the upsert of a message updates an existing device
\* leaves uid, name, location and deviceType as they are and isActive true;
\* when nobody wrote the record between the handler's query and its save, the
\* record becomes the stored one with lastSeen set to the handler's clock
\* reading and firmware replaced by the hint of the message, or kept when the
\* message has none.
C20_UpdateFrame ==
    [][\A i \in 1..Len(handlers) :
        (handlers[i].pc = "saveDevice" /\ handlers'[i].upsert = "updated") =>
            LET h   == handlers[i]
                k   == h.devId
                old == devices[k]
                new == devices'[k]
            IN  /\ Len(devices') = Len(devices)
                /\ \A j \in 1..Len(devices) : j # k => devices'[j] = devices[j]
                /\ new.uid = old.uid /\ old.uid = split(h.msg.topic)[4]
                /\ new.name = old.name
                /\ new.location = old.location
                /\ new.deviceType = old.deviceType
                /\ new.isActive
                /\ old = h.devSnap =>
                    /\ new.lastSeen = h.devDoc.lastSeen
                    /\ h.doc.timestamp <= new.lastSeen /\ new.lastSeen <= now
                    /\ new.lastSeen >= old.lastSeen
                    /\ new.firmware = IF h.msg.body.json.fw.t = "undefined"
                                      THEN old.firmware
                                      ELSE Join(h.msg.body.json.fw.c)]_vars

\* C20 witness: the registered device d1 was updated by a message with the hint
\* "2.0" and then by a message without a hint: the firmware is still "2.0",
\* lastSeen has advanced, name, location and type are the registered ones.
C20_Witness ==
    /\ Len(handlers) = 2
    /\ handlers[1].upsert = "updated" /\ handlers[1].msg.body.json.fw.t = "string"
    /\ handlers[2].upsert = "updated" /\ handlers[2].msg.body.json.fw.t = "undefined"
    /\ handlers[1].devDoc.lastSeen = 0 /\ handlers[2].devDoc.lastSeen = 1
    /\ devices = <<[uid |-> "d1", name |-> "Living Room Sensor", firmware |-> "2.0",
                    isActive |-> TRUE, lastSeen |-> 1,
                    location |-> "Living Room", deviceType |-> "environmental"]>>

(***************************************************************************)
(* Liveness status                                                         *)
(***************************************************************************)

\* C21: a listed device with no reading is offline; with a reading it is
\* online when lastSeen is less than 5 minutes old, warning from exactly 5
\* minutes up to less than 30 minutes, offline from exactly 30 minutes on.
C21_StatusThresholds ==
    \A k \in 1..Len(listing.view) :
        LET e   == listing.view[k]
            age == e.at - e.lastSeen
        IN  e.status =
                IF e.latestReading = NULL THEN "offline"
                ELSE IF age < 5 * 60 * 1000 THEN "online"
                ELSE IF age < 30 * 60 * 1000 THEN "warning"
                ELSE "offline"

\* C21 witness: a device with a reading whose lastSeen is exactly 5 minutes
\* old is listed as warning.
C21_Witness ==
    /\ Len(listing.view) = 1
    /\ listing.view[1].latestReading # NULL
    /\ listing.view[1].at - listing.view[1].lastSeen = 300000
    /\ listing.view[1].status = "warning"

\* C22: an explicit registration that updates an existing device accepts no
\* reading, so the status a listing computes for any device at that instant
\* is the same before and after the registration is saved.
C22_RegistrationKeepsStatus ==
    [][\A i \in 1..Len(posts) :
        (posts[i].pc = "save" /\ posts'[i].status = 200 /\ posts[i].devId # NULL) =>
            \A d \in 1..Len(devices) :
                getDeviceStatus(withTelemetry(devices'[d], telemetry'), now)
                    = getDeviceStatus(withTelemetry(devices[d], telemetry), now)]_vars

(***************************************************************************)
(* Telemetry Store properties                                              *)
(***************************************************************************)

\* C23: no step (message handling, accepted or rejected; registration;
\* listing) removes or changes a stored reading: the readings of the state
\* before are the first readings of the state after, field for field.
C23_ReadingsAppendOnly ==
    [][/\ Len(telemetry') >= Len(telemetry)
       /\ \A r \in 1..Len(telemetry) : telemetry'[r] = telemetry[r]]_vars

\* C23 witness: two readings of d1 are stored, the second later than the
\* first, after a registration of d1 was saved and the devices were listed.
C23_Witness ==
    /\ Len(telemetry) = 2
    /\ telemetry[1].timestamp < telemetry[2].timestamp
    /\ \E i \in 1..Len(posts) : posts[i].status = 200
    /\ Len(listing.view) = 1
    /\ listing.view[1].latestReading = 2

\* C24: in a stored reading uid is the payload's uid when there is one and
\* the id taken from the topic otherwise, deviceId is the id taken from the
\* topic, the device record the message created or updated has that id as
\* its uid, and firmware and tts are 'unknown' and 0 when the payload has
\* none.
C24_ReadingIdentity ==
    \A i \in 1..Len(handlers) :
        LET h  == handlers[i]
            p  == JSONparse(h.msg.body).payload
            id == h.msg.topic[6]
        IN  h.reading # 0 =>
                /\ telemetry[h.reading].deviceId = id
                /\ telemetry[h.reading].uid =
                        IF p.uid.t = "undefined" THEN id ELSE Join(p.uid.c)
                /\ telemetry[h.reading].firmware =
                        IF p.fw.t = "undefined" THEN "unknown" ELSE Join(p.fw.c)
                /\ telemetry[h.reading].tts =
                        IF p.tts.t = "undefined" THEN Zero ELSE p.tts.n
                /\ h.upsert \in {"created", "updated"} =>
                        /\ h.devDoc.uid = id
                        /\ \E d \in 1..Len(devices) : devices[d].uid = id

(***************************************************************************)
(* Payload Decoder properties                                              *)
(***************************************************************************)

\* C25: the shapes of one 32-bit pattern (the number it stands for, its hex
\* text in lower and upper case and with the 0x prefix, the buffer and the
\* array of its four bytes in little-endian order) all decode, without an
\* exception, to the same value; the bytes 00 00 20 41 and the text 41200000
\* both give 10.
C25_ShapesAgree ==
    probe.fn = "littleEndianToFloat" =>
        /\ \A r \in {probe.number, probe.hex, probe.hexUpper, probe.hex0x,
                     probe.buffer, probe.array} :
                ~r.thrown /\ r.v = probe.array.v
        /\ probe.bytes = <<0, 0, 32, 65>> =>
                probe.buffer.v = Fin(10, 1) /\ probe.hex.v = Fin(10, 1)

\* C25 witness: the pattern 41c80000 (bytes 00 00 c8 41) was decoded in
\* every shape and gave 25.
C25_Witness ==
    /\ probe.fn = "littleEndianToFloat"
    /\ probe.bytes = <<0, 0, 200, 65>>
    /\ probe.array.v = Fin(25, 1)
    /\ probe.hex0x.v = Fin(25, 1)

\* A field value no decoding rule applies to and whose text is no decimal
\* number either.
Undecodable(v) ==
    /\ v.t # "number"
    /\ ~(v.t = "string" /\ (startsWith0x(v.c) \/ isHexPattern(v.c)))
    /\ ~(v.t \in {"buffer", "array"} /\ Len(v.c) = 4)
    /\ isNaN(parseFloat(v))

\* C26: for fields of every type the decode step returns (it does not
\* raise) an object with a number in temperature, humidity and pm25, and
\* the number is 0 for a field that cannot be decoded.
C26_DecodeNeverRaises ==
    probe.fn = "decodeLittleEndianData" =>
        /\ DOMAIN probe.ret = {"temperature", "humidity", "pm25"}
        /\ \A x \in {probe.ret.temperature, probe.ret.humidity, probe.ret.pm25} :
                x.k \in {"fin", "nan", "inf"}
        /\ Undecodable(probe.data.temp) => probe.ret.temperature = Zero
        /\ Undecodable(probe.data.hum) => probe.ret.humidity = Zero
        /\ Undecodable(probe.data.pm25) => probe.ret.pm25 = Zero

\* C26 witness: hex text of nine digits (writeUInt32LE raises on it) next to
\* null and an object; the step returned 0 for all three.
C26_Witness ==
    /\ probe.fn = "decodeLittleEndianData"
    /\ probe.data.temp = Hex9
    /\ probe.data.hum = JNull
    /\ probe.data.pm25 = JObject
    /\ probe.ret = [temperature |-> Zero, humidity |-> Zero, pm25 |-> Zero]

\* C27: every value the decode step returns, on the normal path and on the
\* fallback path, is rounded to 2 decimal places, so that rounding it again
\* where a stored reading is read (toFixed(2) in toAPIResponse and in
\* GET /:id/data) returns the same value.
C27_DecodedValuesRounded ==
    probe.fn = "decodeLittleEndianData" =>
        \A x \in {probe.ret.temperature, probe.ret.humidity, probe.ret.pm25} :
            ToFixed2(x) = x

\* C28: temperature, humidity and pm25 of every stored reading are finite
\* numbers, whatever the accepted payload was (hex text of the NaN or the
\* infinity pattern included).
C28_StoredFieldsFinite ==
    \A r \in 1..Len(telemetry) :
        /\ isFinite(telemetry[r].data.temperature)
        /\ isFinite(telemetry[r].data.humidity)
        /\ isFinite(telemetry[r].data.pm25)

\* The value a field decodes to on its own: the float of its encoding,
\* rounded to 2 decimal places.
DecodedAlone(v) == ToFixed2(littleEndianToFloat(v).v)

\* C29: when the decoding of exactly one field raises, that field gets the
\* decimal parse of its own value (0 when there is none) and each of the
\* other two fields gets the value it decodes to on its own.
C29_FallbackPerField ==
    probe.fn = "decodeLittleEndianData" =>
        LET d == probe.data
            raises(v) == littleEndianToFloat(v).thrown
            own(v) == IF raises(v) THEN OrZero(parseFloat(v)) ELSE DecodedAlone(v)
        IN  Cardinality({f \in {"temp", "hum", "pm25"} : raises(d[f])}) = 1 =>
                /\ probe.ret.temperature = own(d.temp)
                /\ probe.ret.humidity = own(d.hum)
                /\ probe.ret.pm25 = own(d.pm25)

(***************************************************************************)
(* Explicit registration properties                                        *)
(***************************************************************************)

\* C30: a registration without uid (absent or empty) is answered with
\* status 400 in the step that receives it, never reaches the database, and
\* that step leaves the device records as they are.
C30_MissingUidRejected ==
    [][\A i \in 1..Len(posts') :
            posts'[i].body.uid = "" =>
                /\ posts'[i].pc = "done"
                /\ posts'[i].status = 400
                /\ posts'[i].devId = NULL
                /\ i > Len(posts) => devices' = devices]_vars

\* C30 witness: a registration without uid was answered 400 while the
\* registry holds a device, which is as it was created.
C30_Witness ==
    /\ \E i \in 1..Len(posts) : posts[i].body.uid = "" /\ posts[i].status = 400
    /\ Len(devices) = 1
    /\ devices[1].name = "Device d1"

\* C31: a registration that is saved for a uid with a device record changes
\* that record only (name as sent; location and deviceType as sent when
\* sent, otherwise as they were; uid, firmware and isActive as they were)
\* and adds no record; one that is saved for a uid without a record adds
\* exactly one record, with the name sent, and location 'Unknown' and
\* deviceType 'sensor' where none was sent.
C31_RegistrationUpsert ==
    [][\A i \in 1..Len(posts) :
        (posts[i].pc = "save" /\ posts'[i].status = 200) =>
            LET b  == posts[i].body
                id == posts[i].devId
            IN  IF id # NULL
                THEN /\ Len(devices') = Len(devices)
                     /\ \A d \in 1..Len(devices) : d # id => devices'[d] = devices[d]
                     /\ devices[id].uid = b.uid
                     /\ devices'[id].uid = b.uid
                     /\ devices'[id].name = b.name
                     /\ devices'[id].location =
                            IF b.location # "" THEN b.location ELSE devices[id].location
                     /\ devices'[id].deviceType =
                            IF b.deviceType # "" THEN b.deviceType ELSE devices[id].deviceType
                     /\ devices'[id].firmware = devices[id].firmware
                     /\ devices'[id].isActive = devices[id].isActive
                ELSE /\ Len(devices') = Len(devices) + 1
                     /\ \A d \in 1..Len(devices) : devices'[d] = devices[d] /\ devices[d].uid # b.uid
                     /\ devices'[Len(devices')].uid = b.uid
                     /\ devices'[Len(devices')].name = b.name
                     /\ devices'[Len(devices')].location =
                            IF b.location # "" THEN b.location ELSE "Unknown"
                     /\ devices'[Len(devices')].deviceType =
                            IF b.deviceType # "" THEN b.deviceType ELSE "sensor"]_vars

\* C31 witness: the registration of d1 without location was saved for the
\* record a message had created and whose firmware the message had set:
\* name and deviceType are the caller's, location and firmware are kept.
C31_Witness ==
    /\ \E i \in 1..Len(posts) :
            posts[i].status = 200 /\ posts[i].devId # NULL /\ posts[i].body.location = ""
    /\ Len(devices) = 1
    /\ devices[1] = [uid |-> "d1", name |-> "Lab sensor", firmware |-> "2.0",
                     isActive |-> TRUE, lastSeen |-> devices[1].lastSeen,
                     location |-> "Unknown", deviceType |-> "probe"]

\* C31 second witness: the registration of d2 without location created the
\* record of d2 next to the one of d1.
C31_WitnessCreate ==
    /\ \E i \in 1..Len(posts) : posts[i].status = 200 /\ posts[i].body.uid = "d2"
    /\ Len(devices) = 2
    /\ devices[2].uid = "d2"
    /\ devices[2].location = "Unknown"
    /\ devices[2].deviceType = "probe"

(***************************************************************************)
(* Ordering properties                                                     *)
(***************************************************************************)

\* C32: of two accepted messages of one device the earlier arrival never has
\* the later receipt timestamp, and a stored reading carries the timestamp
\* its message arrived with, whatever the order in which the store
\* operations of the two handlers complete.
C32_ReceiptOrderIsArrivalOrder ==
    /\ \A i \in 1..Len(handlers) :
            handlers[i].reading # 0 =>
                telemetry[handlers[i].reading].timestamp = handlers[i].doc.timestamp
    /\ \A i, j \in 1..Len(handlers) :
            (i < j /\ handlers[i].reading # 0 /\ handlers[j].reading # 0
                   /\ handlers[i].deviceId = handlers[j].deviceId) =>
                telemetry[handlers[i].reading].timestamp
                    <= telemetry[handlers[j].reading].timestamp

\* C32 witness: the second message overtook the first.  Its reading was
\* stored first, it created the device record the first one then updated,
\* its two events were sent first; the first message still has the earlier
\* timestamp.
C32_Witness ==
    /\ Len(handlers) = 2
    /\ handlers[1].outcome = "processed" /\ handlers[2].outcome = "processed"
    /\ handlers[2].reading = 1 /\ handlers[1].reading = 2
    /\ handlers[2].upsert = "created" /\ handlers[1].upsert = "updated"
    /\ Len(emitted) = 4
    /\ emitted[1].ev = "telemetry:new" /\ emitted[1].data.id = 1
    /\ emitted[2].ev = "device:update"
    /\ emitted[3].ev = "telemetry:new" /\ emitted[3].data.id = 2
    /\ telemetry[2].timestamp < telemetry[1].timestamp

\* The hex digits of a string that starts with 0x or is made of hex digits,
\* without leading zeros.
HexDigitsOf(c) == StripZeros(Run(c, IF startsWith0x(c) THEN 3 ELSE 1, TRUE))

\* The float32 whose 32-bit pattern is written by at most 8 hex digits.
PatternValue(ds) ==
    LET pad == [i \in 1..(8 - Len(ds)) |-> "0"] \o ds
        hi  == DigitsValue(SubSeq(pad, 1, 4), 16)
        lo  == DigitsValue(SubSeq(pad, 5, 8), 16)
    IN  readFloatLE(<<lo % 256, lo \div 256, hi % 256, hi \div 256>>)

\* The path the decoder takes for each kind of value; longFails tells
\* whether hex text of more than 8 digits may raise.
DecoderPaths(longFails) ==
    probe.fn = "field" =>
        LET v == probe.value
            r == probe.ret
        IN  CASE v.t = "number" -> ~r.thrown /\ r.v = v.n
              [] v.t = "string" /\ (startsWith0x(v.c) \/ isHexPattern(v.c)) ->
                    IF Len(HexDigitsOf(v.c)) <= 8
                    THEN ~r.thrown /\ r.v = PatternValue(HexDigitsOf(v.c))
                    ELSE IF longFails THEN r.thrown ELSE ~r.thrown
              [] v.t = "string" /\ ~(startsWith0x(v.c) \/ isHexPattern(v.c)) ->
                    ~r.thrown /\ r.v = OrZero(parseFloatChars(v.c))
              [] v.t \in {"buffer", "array"} /\ Len(v.c) = 4 ->
                    ~r.thrown /\ r.v = readFloatLE(v.c)
              [] OTHER -> ~r.thrown /\ r.v = Zero

\* C33 as stated: the decoder takes one path by priority and text that
\* starts with 0x or is made of hex digits is always decoded as a bit
\* pattern.
C33_HexTextAlwaysPattern == DecoderPaths(FALSE)

\* C33: the decoder takes one path by priority: a number as it is; text
\* that starts with 0x or is made of hex digits (digits only included) as
\* the float of the bit pattern when it has at most 8 significant digits,
\* while longer hex text makes the decoder raise; other text as a decimal
\* number; a 4-byte buffer and a 4-element array as the float of the bytes;
\* anything else as 0.
C33_DecoderPriority == DecoderPaths(TRUE)

\* C33 witness: the text "25" was decoded as the pattern 00000025, the float
\* 37 * 2^-149, and not as the number 25.
C33_Witness ==
    /\ probe.fn = "field"
    /\ probe.value = JString(<<"2", "5">>)
    /\ probe.ret = [thrown |-> FALSE, v |-> Double(1, <<37>>, 0 - 149)]

(***************************************************************************)
(* Broadcast properties                                                    *)
(***************************************************************************)

\* C34: the device:update event a message sends after its upsert was saved
\* carries the lastSeen that upsert wrote to the device record.
C34_EventCarriesStoredLastSeen ==
    [][\A i \in 1..Len(handlers) :
        (/\ handlers[i].pc = "saveDevice"
         /\ handlers'[i].pc = "done"
         /\ handlers'[i].upsert \in {"created", "updated"}) =>
            \A k \in (Len(emitted) + 1)..Len(emitted') :
                emitted'[k].ev = "device:update" =>
                    /\ emitted'[k].lastSeen = handlers[i].devDoc.lastSeen
                    /\ \E d \in 1..Len(devices') :
                            /\ devices'[d].uid = emitted'[k].deviceId
                            /\ devices'[d].lastSeen = emitted'[k].lastSeen]_vars

(***************************************************************************)
(* Worker lifecycle properties                                             *)
(***************************************************************************)

\* C35: the reconnect counter getStatus reports stays within
\* 0..maxReconnectAttempts in every reachable state, whatever the sequence
\* of start, stop and connection events.
C35_CounterWithinCeiling ==
    /\ getStatus(Worker).reconnectAttempts >= 0
    /\ getStatus(Worker).reconnectAttempts <= maxReconnectAttempts

\* C36: a worker never has two sessions that receive messages, and the
\* broker's publishing of one message starts at most one handler (so that
\* the message is stored once).
C36_OneLiveSession ==
    [][/\ Cardinality(LiveSessions(sessions')) <= 1
       /\ Len(handlers') <= Len(handlers) + 1]_vars

(***************************************************************************)
(* Registry consistency properties                                         *)
(***************************************************************************)

\* C37: when the handling of an accepted message has completed and its
\* reading is stored, the registry holds a device record whose uid is the
\* reading's deviceId.
C37_StoredReadingHasDevice ==
    \A i \in 1..Len(handlers) :
        (handlers[i].pc = "done" /\ handlers[i].reading # 0) =>
            \E d \in 1..Len(devices) :
                devices[d].uid = telemetry[handlers[i].reading].deviceId

\* C38: whenever no message handler is in flight, the lastSeen of every
\* device is at or after the receipt timestamp of every stored reading of
\* that device.
C38_LastSeenCoversReadings ==
    InFlight = {} =>
        \A d \in 1..Len(devices), r \in 1..Len(telemetry) :
            telemetry[r].deviceId = devices[d].uid =>
                devices[d].lastSeen >= telemetry[r].timestamp

(***************************************************************************)
(* Registration response properties                                        *)
(***************************************************************************)

\* C39: a registration answered with success says 'Device created
\* successfully' exactly when it created a device record and 'Device updated
\* successfully' exactly when it updated an existing one.
C39_AnswerTellsCreationFromUpdate ==
    \A i \in 1..Len(posts) :
        (posts[i].pc = "done" /\ posts[i].status = 200) =>
            posts[i].message = IF posts[i].devId = NULL
                                THEN "Device created successfully"
                                ELSE "Device updated successfully"

(***************************************************************************)
(* Realtime client properties                                              *)
(***************************************************************************)

\* C40: after any sequence of device:update and telemetry:new events,
\* deviceUpdates holds at most one entry per device and at most 50 entries,
\* every entry is the last event its device sent, the device of the last
\* device:update event has its entry;
\* telemetryUpdates holds the last 100 telemetry:new events at most,
\* the newest first.
C40_ClientListsBounded ==
    /\ Len(deviceUpdates) <= 50
    /\ \A i, j \in 1..Len(deviceUpdates) :
            i # j => deviceUpdates[i].deviceId # deviceUpdates[j].deviceId
    /\ received.last.deviceId # "" =>
            \E i \in 1..Len(deviceUpdates) :
                /\ deviceUpdates[i].deviceId = received.last.deviceId
                /\ deviceUpdates[i].lastSeen = received.last.lastSeen
    /\ \A i \in 1..Len(deviceUpdates) :
            deviceUpdates[i].lastSeen =
                IF deviceUpdates[i].deviceId = "d1" THEN received.ofFirst ELSE 0
    /\ Len(telemetryUpdates) = IF received.telemetry < 100 THEN received.telemetry ELSE 100
    /\ \A k \in 1..Len(telemetryUpdates) :
            telemetryUpdates[k].data.id = received.telemetry - k + 1

\* C40 witness: 52 devices have sent updates and 103 readings came; both
\* lists are full, the entries of the first two devices and the first three
\* readings are gone.
C40_Witness ==
    /\ received.devices = 52
    /\ Len(deviceUpdates) = 50
    /\ deviceUpdates[1].deviceId = "d3"
    /\ Len(telemetryUpdates) = 100
    /\ telemetryUpdates[1].data.id = 103
    /\ telemetryUpdates[100].data.id = 4

====
